---- MODULE Spec2Model ----
(***************************************************************************)
(* Model of the generative analysis pipeline of ARQV30:                    *)
(* src/src/services/gemini_client.py, class GeminiClient.                  *)
(*                                                                         *)
(* A Python dict is a function whose domain is its set of keys; a missing  *)
(* key is a key outside the domain.  A backend text is a sequence of       *)
(* tokens: a positive number p is a well-formed JSON document whose value  *)
(* is p, JUNK is any text that is no JSON (a fence without the json tag   *)
(* included), FENCE_OPEN and FENCE_CLOSE are the two delimiters the        *)
(* regular expression of generate_analysis looks for, DEEP is a JSON       *)
(* document nested deeper than the recursion limit of the interpreter.     *)
(* Amounts of money are whole reais.                                       *)
(***************************************************************************)
EXTENDS Integers, Sequences, FiniteSets, TLC

VARIABLES
    api_key,                \* self.api_key is set (GEMINI_API_KEY present)
    model,                  \* self.model: "unset" (no such attribute) or "ready"
    client,                 \* self.client: "unset" or "None"
    pc,                     \* position of the generate_analysis call
    exc,                    \* exception that left generate_analysis, or "none"
    data,                   \* the request dict handed to generate_analysis
    request,                \* the request as the caller built it (before the call)
    research_data,          \* local research_data
    research_summary,       \* local research_summary
    full_analysis_results,  \* local full_analysis_results
    phase_num,              \* loop variable of the phase loop
    phase_prompt,           \* the prompt last sent to the backend
    phase_status,           \* per phase: what happened to it in this run
    calls,                  \* per phase: generate_content calls issued
    ret,                    \* the value generate_analysis returned
    \* the parsing of one backend text, lines 2462-2477, step by step
    response_text,          \* response.text
    parser_pc,              \* position in the parsing code
    attempts,               \* the parse attempts made so far, in order
    parse_out,              \* what the parsing ended with
    \* one call of research_segment_comprehensive, lines 93-121
    pool_pc,                \* position of the main thread in the call
    timeouts,               \* the queries whose search request fails
    future_to_query,        \* per planned query: the state of its future
    pool_research_data,     \* local research_data of the call
    writes,                 \* per planned query: assignments to its key
    \* two requests side by side
    pair_pc,                \* what has been computed for the pair
    req_a,                  \* the first request
    req_b,                  \* the second request
    plan_a,                 \* the queries planned for the first request
    plan_b,                 \* the queries planned for the second request
    doc_a,                  \* the fallback of the first request
    doc_b,                  \* the fallback of the second request
    \* a caller that calls generate_analysis again with the same dict
    run,                    \* the number of the call in progress
    script,                 \* per call and phase: what the backend answers
    deadline,               \* whether the time allowed to the call is over
    \* the time one call of the research takes
    now,                    \* seconds since the call began
    durations,              \* per planned query: seconds its worker is busy
    elapsed,                \* per planned query: seconds its worker has run
    \* one request to the /analyze route
    route_pc,               \* position in analyze
    route_request,          \* the JSON body of the request
    gemini_response,        \* what generate_analysis returned
    analysis_data,          \* the decoded document
    db_fault,               \* the database operation that raises, if any
    db,                     \* the session: "none", "open" or "closed"
    rows,                   \* the documents of the committed rows
    http_response,          \* the response of the route
    \* the other entry points, one record each
    search,                 \* one call of search_internet
    arch,                   \* the /archeology route and its cached wrapper
    boot,                   \* the database connection test at startup
    site                    \* the users table and the /signup and /login requests

pipeline_vars ==
    <<api_key, model, client, pc, exc, data, request, research_data,
      research_summary, full_analysis_results, phase_num, phase_prompt,
      phase_status, calls, ret>>

parser_vars == <<response_text, parser_pc, attempts, parse_out>>

pool_vars ==
    <<pool_pc, timeouts, future_to_query, pool_research_data, writes>>

pair_vars == <<pair_pc, req_a, req_b, plan_a, plan_b, doc_a, doc_b>>

session_vars == <<run, script, deadline>>

clock_vars == <<now, durations, elapsed>>

route_vars ==
    <<route_pc, route_request, gemini_response, analysis_data, db_fault, db,
      rows, http_response>>

entry_vars == <<search, arch, boot, site>>

\* The variables a pipeline run leaves alone.
unit_vars ==
    <<parser_vars, pool_vars, pair_vars, session_vars, clock_vars, route_vars,
      entry_vars>>

vars ==
    <<pipeline_vars, parser_vars, pool_vars, pair_vars, session_vars,
      clock_vars, route_vars, entry_vars>>

-----------------------------------------------------------------------------
(* Bounds of the model *)

MaxPayload == 1     \* distinct JSON values the backend may answer with
MaxTime == 1        \* distinct readings of time.time()
MaxTextLen == 4     \* tokens of a backend text handed to the parsing alone
MaxRuns == 2        \* calls of generate_analysis with the same dict
MaxAnchors == 6     \* result links on the page of the search backend
MaxArchRequests == 3    \* requests one process serves on /archeology

Payloads == 1..MaxPayload
Times == 1..MaxTime

-----------------------------------------------------------------------------
(* Program constants *)

NumPhases == 9
DefaultPreco == 997
JUNK == 0
FENCE_OPEN == -1
FENCE_CLOSE == -2
DEEP == -3
SummaryTopResults == 3
SummarySnippetLen == 200

Phases == 1..NumPhases

EmptyDict == [k \in {} |-> 0]

Get(d, k, default) == IF k \in DOMAIN d THEN d[k] ELSE default

PhaseKey(i) == "fase_" \o ToString(i) \o "_result"

Min(a, b) == IF a <= b THEN a ELSE b

-----------------------------------------------------------------------------
(* GeminiClient.__init__ *)

\* The attributes of the client after __init__, for a key that is present or
\* not and a genai.configure / GenerativeModel construction that works or not.
\* self.model is assigned on one path only; the others assign self.client.
GeminiClient_init(key_present, construct_ok) ==
    IF ~key_present
    THEN [api_key |-> FALSE, model |-> "unset", client |-> "None"]
    ELSE IF construct_ok
         THEN [api_key |-> TRUE, model |-> "ready", client |-> "unset"]
         ELSE [api_key |-> TRUE, model |-> "unset", client |-> "None"]

-----------------------------------------------------------------------------
(* Requests *)

\* Values of data['preco_float']: t is the Python type and form, v the
\* number it denotes (0 when it denotes none).
Num(n) == [t |-> "num", v |-> n]
NumStr(n) == [t |-> "numstr", v |-> n]
BadStr == [t |-> "badstr", v |-> 0]
NoneVal == [t |-> "none", v |-> 0]
InfVal == [t |-> "inf", v |-> 0]
OtherVal == [t |-> "other", v |-> 0]

Requests ==
    { [segmento |-> "weight-loss coaching", produto |-> "curso",
       preco |-> "497", preco_float |-> Num(497)],
      [nicho |-> "yoga", preco |-> "inf", preco_float |-> InfVal] }

-----------------------------------------------------------------------------
(* _create_fallback_analysis *)

\* int(x) of Python for the rational num/den: truncation towards zero.
Trunc(num, den) ==
    IF num >= 0 THEN num \div den ELSE -((-num) \div den)

Pad3(k) ==
    IF k < 10 THEN "00" \o ToString(k)
    ELSE IF k < 100 THEN "0" \o ToString(k)
    ELSE ToString(k)

RECURSIVE Thousands(_)
\* f"{n:,}".replace(',', '.') for n >= 0
Thousands(n) ==
    IF n < 1000 THEN ToString(n)
    ELSE Thousands(n \div 1000) \o "." \o Pad3(n % 1000)

\* f"R$ {n:,}".replace(',', '.')
FormatReais(n) ==
    IF n < 0 THEN "R$ -" \o Thousands(-n) ELSE "R$ " \o Thousands(n)

\* A price that also depends on whether the request names a product.
fallback_preco_by_produto(d) ==
    LET x == Get(d, "preco_float", NoneVal) IN
    IF "produto" \in DOMAIN d /\ x.t \in {"num", "numstr"}
    THEN [inf |-> FALSE, v |-> x.v + 1]
    ELSE IF x.t \in {"num", "numstr"} THEN [inf |-> FALSE, v |-> x.v]
    ELSE IF x.t = "inf" THEN [inf |-> TRUE, v |-> 0]
    ELSE [inf |-> FALSE, v |-> DefaultPreco]

\* Lines 127-130: the price the fallback works with.
\* float() of a number or a numeric string is that number, float('inf') is
\* infinite, float() of any other string is a ValueError, which is caught.
fallback_preco(d) ==
    LET x == Get(d, "preco_float", NoneVal) IN
    IF x.t = "none" THEN [inf |-> FALSE, v |-> DefaultPreco]
    ELSE IF x.t \in {"num", "numstr"} THEN [inf |-> FALSE, v |-> x.v]
    ELSE IF x.t = "inf" THEN [inf |-> TRUE, v |-> 0]
    ELSE [inf |-> FALSE, v |-> DefaultPreco]

\* int(preco) of an infinite float raises OverflowError while the dict
\* literal of line 132 is built, outside the try of lines 127-130.
fallback_raises(d) == fallback_preco(d).inf

\* An amount that is kept in three digits.
fallback_amounts_wrapping(preco) ==
    [purchase_ticket |-> Trunc(preco * 8, 10),
     segment_ticket |-> Trunc(preco, 1) % 1000,
     range_low |-> Trunc(preco * 15, 10),
     range_high |-> Trunc(preco * 25, 10),
     revenue_conservative |-> Trunc(preco * 50, 1),
     revenue_realistic |-> Trunc(preco * 80, 1),
     optimistic_ticket |-> Trunc(preco * 12, 10),
     revenue_optimistic |-> Trunc(preco * 150, 1)]

\* The amounts of lines 190, 238, 358 and 422-445: int(preco * k) for
\* k = 0.8, 1, 1.5, 2.5, 50, 80, 1.2 and 150.
fallback_amounts(preco) ==
    [purchase_ticket |-> Trunc(preco * 8, 10),
     segment_ticket |-> Trunc(preco, 1),
     range_low |-> Trunc(preco * 15, 10),
     range_high |-> Trunc(preco * 25, 10),
     revenue_conservative |-> Trunc(preco * 50, 1),
     revenue_realistic |-> Trunc(preco * 80, 1),
     optimistic_ticket |-> Trunc(preco * 12, 10),
     revenue_optimistic |-> Trunc(preco * 150, 1)]

_create_fallback_analysis(d) ==
    LET segmento == Get(d, "segmento", Get(d, "nicho", "Produto Digital"))
        produto == Get(d, "produto", "Produto Digital")
        amounts == fallback_amounts(fallback_preco(d).v)
    IN [escopo |-> [segmento_principal |-> segmento, produto_ideal |-> produto],
        avatar_ultra_detalhado |->
            [ticket_medio |-> FormatReais(amounts.purchase_ticket)],
        mapeamento_dores_ultra_detalhado |-> "fixed",
        analise_concorrencia_detalhada |->
            [nome |-> "Academia Premium " \o segmento,
             preco_range |-> FormatReais(amounts.range_low) \o " - "
                             \o FormatReais(amounts.range_high)],
        inteligencia_mercado |-> "fixed",
        estrategia_palavras_chave |-> "fixed",
        metricas_performance_detalhadas |->
            [benchmarks_segmento |->
                [cac_medio_segmento |-> "R$ 420",
                 ticket_medio_segmento |->
                    FormatReais(amounts.segment_ticket)]],
        voz_mercado_linguagem |-> "fixed",
        projecoes_cenarios |->
            [cenario_conservador |->
                [ticket_medio |-> FormatReais(amounts.segment_ticket),
                 faturamento_mensal |->
                    FormatReais(amounts.revenue_conservative)],
             cenario_realista |->
                [ticket_medio |-> FormatReais(amounts.segment_ticket),
                 faturamento_mensal |->
                    FormatReais(amounts.revenue_realistic)],
             cenario_otimista |->
                [ticket_medio |-> FormatReais(amounts.optimistic_ticket),
                 faturamento_mensal |->
                    FormatReais(amounts.revenue_optimistic)]],
        plano_acao_detalhado |-> "fixed",
        insights_exclusivos |-> "O segmento " \o segmento]

FallbackKeys ==
    {"escopo", "avatar_ultra_detalhado", "mapeamento_dores_ultra_detalhado",
     "analise_concorrencia_detalhada", "inteligencia_mercado",
     "estrategia_palavras_chave", "metricas_performance_detalhadas",
     "voz_mercado_linguagem", "projecoes_cenarios", "plano_acao_detalhado",
     "insights_exclusivos"}

-----------------------------------------------------------------------------
(* research_segment_comprehensive, as generate_analysis sees it: one call  *)
(* that returns a dict with one entry per planned query and never raises.  *)

\* Lines 95-106, the accented letters of the templates written without accent.
research_queries(segmento) ==
    << segmento \o " mercado brasileiro 2023 2025",
       segmento \o " tendencias consumidor comportamento",
       segmento \o " concorrentes principais Brasil",
       segmento \o " precos produtos servicos",
       segmento \o " publico alvo demographics",
       segmento \o " marketing digital estrategias",
       segmento \o " palavras chave SEO",
       segmento \o " influenciadores autoridades",
       segmento \o " problemas dores clientes",
       segmento \o " oportunidades negocio" >>

NumQueries == 10

\* What search_internet returns for a query that works; snippet is the
\* length of the snippet text (at most 500 characters plus "...").
SearchResults ==
    << [title |-> "t1", url |-> "u1", snippet |-> 503],
       [title |-> "t2", url |-> "u2", snippet |-> 0],
       [title |-> "t3", url |-> "u3", snippet |-> 120],
       [title |-> "t4", url |-> "u4", snippet |-> 200] >>

\* The sets of queries whose search fails, as drawn in the pipeline run;
\* the research call on its own is run over more of them (TimeoutSets).
FailedQuerySets == { {2, 5, 9} }

research_segment_comprehensive(segmento, failed) ==
    LET qs == research_queries(segmento) IN
    [q \in {qs[i] : i \in 1..NumQueries} |->
        IF (CHOOSE i \in 1..NumQueries : qs[i] = q) \in failed
        THEN << >> ELSE SearchResults]

\* A digest entry that lists every result of the query with its whole snippet.
summary_entry_whole(query, results) ==
    [query |-> query,
     items |-> [k \in 1..Len(results) |->
                  [title |-> results[k].title,
                   snippet |-> results[k].snippet]]]

\* Lines 2440-2445: the digest of the research, one entry per query that has
\* results, each with the first three results and snippets cut at 200.
summary_entry(query, results) ==
    [query |-> query,
     items |-> [k \in 1..Min(Len(results), SummaryTopResults) |->
                  [title |-> results[k].title,
                   snippet |-> Min(results[k].snippet, SummarySnippetLen)]]]

compile_research_summary(segmento, rd) ==
    LET qs == research_queries(segmento)
        all == [i \in 1..NumQueries |-> summary_entry(qs[i], rd[qs[i]])]
        has_results(e) == Len(e.items) > 0
    IN SelectSeq(all, has_results)

-----------------------------------------------------------------------------
(* _generate_phase_prompt *)

\* Lines 2402-2417: the request fields, the research digest, the text of the
\* phase, then the payload of every earlier phase whose key is in the dict.
_generate_phase_prompt(phase_number, current_data, summary) ==
    LET earlier == [i \in 1..(phase_number - 1) |-> i]
        present(i) == PhaseKey(i) \in DOMAIN current_data
        kept == SelectSeq(earlier, present)
    IN [phase |-> phase_number,
        segmento |-> Get(current_data, "segmento", ""),
        produto |-> Get(current_data, "produto", ""),
        preco |-> Get(current_data, "preco", ""),
        research_summary |-> summary,
        context |-> [k \in 1..Len(kept) |->
                        [phase |-> kept[k],
                         payload |-> current_data[PhaseKey(kept[k])]]]]

NoPrompt == [phase |-> 0]

\* len(json.dumps(payload, indent=2)) of line 2415, counted in units of the
\* longest prompt that is allowed: response.text has no bound of its own, so
\* whatever length is allowed the payload p stands for a document p times
\* as long.
dump_len(payload) == payload

RECURSIVE context_len(_)
\* The length of the context that lines 2412-2415 append to the prompt:
\* every entry in full.
context_len(context) ==
    IF context = << >> THEN 0
    ELSE dump_len(Head(context).payload) + context_len(Tail(context))

-----------------------------------------------------------------------------
(* Parsing of the backend text, lines 2462-2477 *)

\* json.loads: a text is a JSON document exactly when it is one JSON token.
\* A text that opens with nesting deeper than the interpreter's recursion
\* limit makes the decoder raise RecursionError, which is not a
\* json.JSONDecodeError.
json_loads(text) ==
    IF Len(text) >= 1 /\ text[1] = DEEP
    THEN [ok |-> FALSE, raised |-> TRUE, value |-> 0]
    ELSE IF Len(text) = 1 /\ text[1] > 0
    THEN [ok |-> TRUE, raised |-> FALSE, value |-> text[1]]
    ELSE [ok |-> FALSE, raised |-> FALSE, value |-> 0]

\* re.search(r"```json\n(.*?)\n```", text, re.DOTALL): the leftmost opening
\* fence that has a closing fence after it, and the text up to the nearest
\* closing fence.
re_search(text) ==
    LET opens == {i \in 1..Len(text) :
                    /\ text[i] = FENCE_OPEN
                    /\ \E j \in (i + 1)..Len(text) : text[j] = FENCE_CLOSE}
    IN IF opens = {} THEN [found |-> FALSE, group |-> << >>]
       ELSE LET i == CHOOSE a \in opens : \A b \in opens : a <= b
                j == CHOOSE a \in (i + 1)..Len(text) :
                        /\ text[a] = FENCE_CLOSE
                        /\ \A b \in (i + 1)..(a - 1) : text[b] # FENCE_CLOSE
            IN [found |-> TRUE, group |-> SubSeq(text, i + 1, j - 1)]

\* Lines 2462-2477 as one function of the text: the except clauses of lines
\* 2465 and 2472 catch json.JSONDecodeError only.
parse_phase_result(text) ==
    LET direct == json_loads(text) IN
    IF direct.ok \/ direct.raised THEN direct
    ELSE LET match == re_search(text) IN
         IF match.found THEN json_loads(match.group)
         ELSE [ok |-> FALSE, raised |-> FALSE, value |-> 0]

\* The texts the backend answers with in a pipeline run.
ResponseTexts ==
    { << >>, <<JUNK>>, <<FENCE_OPEN, JUNK, FENCE_CLOSE>>, <<DEEP>> }
    \cup { <<p>> : p \in Payloads }
    \cup { <<JUNK, FENCE_OPEN, p, FENCE_CLOSE>> : p \in Payloads }

-----------------------------------------------------------------------------
(* The parts of the state that a specification does not exercise *)

NoOutcome == [kind |-> "none", value |-> 0]

ParserIdle ==
    /\ response_text = << >>
    /\ parser_pc = "idle"
    /\ attempts = << >>
    /\ parse_out = NoOutcome

PoolIdle ==
    /\ pool_pc = "idle"
    /\ timeouts = {}
    /\ future_to_query = << >>
    /\ pool_research_data = EmptyDict
    /\ writes = << >>

PairIdle ==
    /\ pair_pc = "idle"
    /\ req_a = EmptyDict
    /\ req_b = EmptyDict
    /\ plan_a = << >>
    /\ plan_b = << >>
    /\ doc_a = EmptyDict
    /\ doc_b = EmptyDict

NoDeadline == [expired |-> FALSE, calls |-> << >>]

SessionIdle ==
    /\ run = 0
    /\ script = << >>
    /\ deadline = NoDeadline

ClockIdle ==
    /\ now = 0
    /\ durations = << >>
    /\ elapsed = << >>

NoGeneration == [kind |-> "none", text |-> << >>]

NoDocument == [kind |-> "none", value |-> EmptyDict]

NoResponse ==
    [status |-> 0, error |-> "", analysis_html |-> "", analysis_id |-> 0,
     analysis_data |-> EmptyDict]

RouteIdle ==
    /\ route_pc = "idle"
    /\ route_request = EmptyDict
    /\ gemini_response = NoGeneration
    /\ analysis_data = NoDocument
    /\ db_fault = "none"
    /\ db = "none"
    /\ rows = << >>
    /\ http_response = NoResponse

\* An entry point that is not exercised.
NotRunning == [pc |-> "idle"]

SearchIdle == search = NotRunning

ArchIdle == arch = NotRunning

BootIdle == boot = NotRunning

SiteIdle == site = NotRunning

PipelineIdle ==
    /\ api_key = FALSE
    /\ model = "unset"
    /\ client = "None"
    /\ pc = "idle"
    /\ exc = "none"
    /\ data = EmptyDict
    /\ request = EmptyDict
    /\ research_data = EmptyDict
    /\ research_summary = << >>
    /\ full_analysis_results = EmptyDict
    /\ phase_num = 0
    /\ phase_prompt = NoPrompt
    /\ phase_status = [i \in Phases |-> "PENDING"]
    /\ calls = [i \in Phases |-> 0]
    /\ ret = EmptyDict

-----------------------------------------------------------------------------
(* The pipeline run: GeminiClient() followed by generate_analysis(data) *)

Init ==
    \E key_present \in BOOLEAN, construct_ok \in BOOLEAN, d \in Requests :
        LET c == GeminiClient_init(key_present, construct_ok) IN
        /\ api_key = c.api_key
        /\ model = c.model
        /\ client = c.client
        /\ pc = "idle"
        /\ exc = "none"
        /\ data = d
        /\ request = d
        /\ research_data = EmptyDict
        /\ research_summary = << >>
        /\ full_analysis_results = EmptyDict
        /\ phase_num = 0
        /\ phase_prompt = NoPrompt
        /\ phase_status = [i \in Phases |-> "PENDING"]
        /\ calls = [i \in Phases |-> 0]
        /\ ret = EmptyDict
        /\ ParserIdle
        /\ PoolIdle
        /\ PairIdle
        /\ SessionIdle
        /\ ClockIdle
        /\ RouteIdle
        /\ SearchIdle
        /\ ArchIdle
        /\ BootIdle
        /\ SiteIdle

\* Lines 2420-2433.  Reading self.model when __init__ never assigned it is an
\* AttributeError, raised before the try of line 2424 is entered.
generate_analysis_enter ==
    /\ pc = "idle"
    /\ IF model = "unset"
       THEN /\ pc' = "raised"
            /\ exc' = "AttributeError"
            /\ UNCHANGED ret
       ELSE IF model = "None"
       THEN /\ pc' = "returned"
            /\ ret' = [error |-> "Gemini client not initialized."]
            /\ UNCHANGED exc
       ELSE /\ pc' = "research"
            /\ UNCHANGED <<exc, ret>>
    /\ full_analysis_results' = EmptyDict
    /\ UNCHANGED <<api_key, model, client, data, request, research_data,
                   research_summary, phase_num, phase_prompt, phase_status,
                   calls>>
    /\ UNCHANGED unit_vars

\* Lines 2437-2445.
research ==
    /\ pc = "research"
    /\ \E failed \in FailedQuerySets :
        LET segmento == Get(data, "segmento", Get(data, "nicho", ""))
            rd == research_segment_comprehensive(segmento, failed)
        IN /\ research_data' = rd
           /\ research_summary' = compile_research_summary(segmento, rd)
    /\ phase_num' = 1
    /\ pc' = "compose"
    /\ UNCHANGED <<api_key, model, client, exc, data, request,
                   full_analysis_results, phase_prompt, phase_status, calls,
                   ret>>
    /\ UNCHANGED unit_vars

\* Lines 2448-2454: the prompt of the phase is composed and the generation
\* call is issued.
start_phase ==
    /\ pc = "compose"
    /\ phase_prompt' = _generate_phase_prompt(phase_num, data, research_summary)
    /\ calls' = [calls EXCEPT ![phase_num] = @ + 1]
    /\ phase_status' = [phase_status EXCEPT ![phase_num] = "RUNNING"]
    /\ pc' = "calling"
    /\ UNCHANGED <<api_key, model, client, exc, data, request, research_data,
                   research_summary, full_analysis_results, phase_num, ret>>
    /\ UNCHANGED unit_vars

\* Lines 2494-2496: the handler of every exception raised inside the try.
\* It returns the fallback; an exception of the fallback itself leaves
\* generate_analysis.
except_handler ==
    IF fallback_raises(data)
    THEN /\ pc' = "raised"
         /\ exc' = "OverflowError"
         /\ UNCHANGED ret
    ELSE /\ pc' = "returned"
         /\ ret' = _create_fallback_analysis(data)
         /\ UNCHANGED exc

\* Line 2454 or 2456: generate_content (or the read of response.text) raises:
\* a backend error or a timeout.
generate_content_raises ==
    /\ pc = "calling"
    /\ phase_status' = [phase_status EXCEPT ![phase_num] = "FAILED_ERROR"]
    /\ except_handler
    /\ UNCHANGED <<api_key, model, client, data, request, research_data,
                   research_summary, full_analysis_results, phase_num,
                   phase_prompt, calls>>
    /\ UNCHANGED unit_vars

\* A loop that steps over the phase after the current one.
next_iteration_skipping ==
    IF phase_num >= NumPhases - 1
    THEN /\ pc' = "assemble"
         /\ UNCHANGED phase_num
    ELSE /\ pc' = "compose"
         /\ phase_num' = phase_num + 2

\* A loop that repeats the current phase for as long as it fails.
next_iteration_retrying ==
    IF phase_status'[phase_num] # "SUCCEEDED"
    THEN /\ pc' = "compose"
         /\ UNCHANGED phase_num
    ELSE IF phase_num = NumPhases
    THEN /\ pc' = "assemble"
         /\ UNCHANGED phase_num
    ELSE /\ pc' = "compose"
         /\ phase_num' = phase_num + 1

\* Where the loop of line 2448 goes after the body of phase_num.
next_iteration ==
    IF phase_num = NumPhases
    THEN /\ pc' = "assemble"
         /\ UNCHANGED phase_num
    ELSE /\ pc' = "compose"
         /\ phase_num' = phase_num + 1

\* Lines 2456-2481: the backend answered with a text.  An exception of the
\* parsing that the except clauses of lines 2465 and 2472 do not catch
\* leaves the loop for the handler of line 2494.
generate_content_returns ==
    /\ pc = "calling"
    /\ \E text \in ResponseTexts :
        IF text = << >>
        THEN /\ phase_status' = [phase_status EXCEPT ![phase_num] = "FAILED_EMPTY"]
             /\ next_iteration
             /\ UNCHANGED <<full_analysis_results, data, exc, ret>>
        ELSE LET phase_result == parse_phase_result(text) IN
             IF phase_result.raised
             THEN /\ phase_status' =
                        [phase_status EXCEPT ![phase_num] = "FAILED_RAISED"]
                  /\ except_handler
                  /\ UNCHANGED <<full_analysis_results, data, phase_num>>
             ELSE IF phase_result.ok
             THEN /\ full_analysis_results' =
                        (PhaseKey(phase_num) :> phase_result.value)
                            @@ full_analysis_results
                  /\ data' = (PhaseKey(phase_num) :> phase_result.value) @@ data
                  /\ phase_status' =
                        [phase_status EXCEPT ![phase_num] = "SUCCEEDED"]
                  /\ next_iteration
                  /\ UNCHANGED <<exc, ret>>
             ELSE /\ phase_status' =
                        [phase_status EXCEPT ![phase_num] = "FAILED_PARSE"]
                  /\ next_iteration
                  /\ UNCHANGED <<full_analysis_results, data, exc, ret>>
    /\ UNCHANGED <<api_key, model, client, request, research_data,
                   research_summary, phase_prompt, calls>>
    /\ UNCHANGED unit_vars

\* Lines 2483-2492.  The fallback of line 2485 is called inside the try, so
\* its exception goes to the handler of line 2494, which calls it again.
assemble ==
    /\ pc = "assemble"
    /\ IF DOMAIN full_analysis_results = {}
       THEN except_handler
       ELSE \E t \in Times :
            /\ ret' = ("research_data" :> research_data)
                        @@ ("generated_at" :> t) @@ full_analysis_results
            /\ pc' = "returned"
            /\ UNCHANGED exc
    /\ UNCHANGED <<api_key, model, client, data, request, research_data,
                   research_summary, full_analysis_results, phase_num,
                   phase_prompt, phase_status, calls>>
    /\ UNCHANGED unit_vars

Next ==
    \/ generate_analysis_enter
    \/ research
    \/ start_phase
    \/ generate_content_raises
    \/ generate_content_returns
    \/ assemble

Spec == Init /\ [][Next]_vars

-----------------------------------------------------------------------------
(* The parsing of one backend text, lines 2456-2477, statement by statement *)

Tokens == {JUNK, FENCE_OPEN, FENCE_CLOSE, DEEP} \cup Payloads

RECURSIVE TextsOfLen(_)
TextsOfLen(n) ==
    IF n = 0 THEN { << >> }
    ELSE { Append(t, k) : t \in TextsOfLen(n - 1), k \in Tokens }

\* Every text of at most MaxTextLen tokens.
Texts == UNION { TextsOfLen(n) : n \in 0..MaxTextLen }

ParserInit ==
    /\ response_text \in Texts
    /\ parser_pc = "check"
    /\ attempts = << >>
    /\ parse_out = NoOutcome
    /\ PipelineIdle
    /\ PoolIdle
    /\ PairIdle
    /\ SessionIdle
    /\ ClockIdle
    /\ RouteIdle
    /\ SearchIdle
    /\ ArchIdle
    /\ BootIdle
    /\ SiteIdle

\* What json.loads leaves behind at lines 2464 and 2471.
loads_outcome(r, on_failure) ==
    IF r.raised THEN [kind |-> "RecursionError", value |-> 0]
    ELSE IF r.ok THEN [kind |-> "payload", value |-> r.value]
    ELSE on_failure

\* Lines 2456-2460: an empty text ends the phase before any parsing.
check_empty ==
    /\ parser_pc = "check"
    /\ IF response_text = << >>
       THEN /\ parse_out' = [kind |-> "empty", value |-> 0]
            /\ parser_pc' = "done"
       ELSE /\ parser_pc' = "direct"
            /\ UNCHANGED parse_out
    /\ UNCHANGED <<response_text, attempts>>
    /\ UNCHANGED <<pipeline_vars, pool_vars, pair_vars, session_vars,
                   clock_vars, route_vars, entry_vars>>

\* Lines 2462-2465: json.loads of the whole text.
try_direct ==
    /\ parser_pc = "direct"
    /\ attempts' = Append(attempts, "direct")
    /\ LET r == json_loads(response_text) IN
       /\ parse_out' = loads_outcome(r, parse_out)
       /\ parser_pc' = IF r.ok \/ r.raised THEN "done" ELSE "scan"
    /\ UNCHANGED response_text
    /\ UNCHANGED <<pipeline_vars, pool_vars, pair_vars, session_vars,
                   clock_vars, route_vars, entry_vars>>

\* Lines 2468-2469 and 2475-2477: the search for a fenced block.
scan_fence ==
    /\ parser_pc = "scan"
    /\ attempts' = Append(attempts, "scan")
    /\ IF re_search(response_text).found
       THEN /\ parser_pc' = "interior"
            /\ UNCHANGED parse_out
       ELSE /\ parser_pc' = "done"
            /\ parse_out' = [kind |-> "ParseError", value |-> 0]
    /\ UNCHANGED response_text
    /\ UNCHANGED <<pipeline_vars, pool_vars, pair_vars, session_vars,
                   clock_vars, route_vars, entry_vars>>

\* Lines 2470-2474: json.loads of the interior of the block.
try_interior ==
    /\ parser_pc = "interior"
    /\ attempts' = Append(attempts, "interior")
    /\ LET r == json_loads(re_search(response_text).group) IN
       /\ parse_out' = loads_outcome(r, [kind |-> "ParseError", value |-> 0])
       /\ parser_pc' = "done"
    /\ UNCHANGED response_text
    /\ UNCHANGED <<pipeline_vars, pool_vars, pair_vars, session_vars,
                   clock_vars, route_vars, entry_vars>>

ParserNext ==
    \/ check_empty
    \/ try_direct
    \/ scan_fence
    \/ try_interior

ParserSpec == ParserInit /\ [][ParserNext]_vars

-----------------------------------------------------------------------------
(* One call of research_segment_comprehensive, lines 93-121: the main       *)
(* thread submits the queries to a ThreadPoolExecutor and collects the      *)
(* futures as they complete; the workers run search_internet.               *)

MaxWorkers == 5

Queries == 1..NumQueries

\* The segment of the call.
PoolSegmento == "yoga"

\* The key of the q-th planned query in the result dict.
QueryOf(q) == research_queries(PoolSegmento)[q]

\* The sets of queries whose search request fails or times out.
TimeoutSets == { {}, {2, 5, 9}, {1, 2, 3, 4, 5, 6}, Queries }

WithState(st) == {q \in Queries : future_to_query[q] = st}

\* Lines 50-73: search_internet returns its results, or [] from its except
\* clause when the request failed.
search_internet(q) == IF q \in timeouts THEN << >> ELSE SearchResults

ResearchInit ==
    /\ pool_pc = "submitting"
    /\ timeouts \in TimeoutSets
    /\ future_to_query = [q \in Queries |-> "unsubmitted"]
    /\ pool_research_data = EmptyDict
    /\ writes = [q \in Queries |-> << >>]
    /\ PipelineIdle
    /\ ParserIdle
    /\ PairIdle
    /\ SessionIdle
    /\ ClockIdle
    /\ RouteIdle
    /\ SearchIdle
    /\ ArchIdle
    /\ BootIdle
    /\ SiteIdle

\* Lines 109-112: executor.submit of the next query of the list.
submit ==
    /\ pool_pc = "submitting"
    /\ LET q == CHOOSE a \in WithState("unsubmitted") :
                    \A b \in WithState("unsubmitted") : a <= b
       IN /\ future_to_query' = [future_to_query EXCEPT ![q] = "queued"]
          /\ pool_pc' = IF q = NumQueries THEN "collecting" ELSE "submitting"
    /\ UNCHANGED <<timeouts, pool_research_data, writes>>
    /\ UNCHANGED <<pipeline_vars, parser_vars, pair_vars, session_vars,
                   clock_vars, route_vars, entry_vars>>

\* A worker that starts whatever the number of workers already running.
worker_start_unbounded(q) ==
    /\ future_to_query[q] = "queued"
    /\ \A b \in WithState("queued") : q <= b
    /\ future_to_query' = [future_to_query EXCEPT ![q] = "running"]
    /\ UNCHANGED <<pool_pc, timeouts, pool_research_data, writes>>
    /\ UNCHANGED <<pipeline_vars, parser_vars, pair_vars, session_vars,
                   clock_vars, route_vars, entry_vars>>

\* A pool that runs one query at a time.
worker_start_serial(q) ==
    /\ future_to_query[q] = "queued"
    /\ \A b \in WithState("queued") : q <= b
    /\ WithState("running") = {}
    /\ future_to_query' = [future_to_query EXCEPT ![q] = "running"]
    /\ UNCHANGED <<pool_pc, timeouts, pool_research_data, writes>>
    /\ UNCHANGED <<pipeline_vars, parser_vars, pair_vars, session_vars,
                   clock_vars, route_vars, entry_vars>>

\* Line 108: one of the max_workers threads takes the oldest queued query.
worker_start(q) ==
    /\ future_to_query[q] = "queued"
    /\ \A b \in WithState("queued") : q <= b
    /\ Cardinality(WithState("running")) < MaxWorkers
    /\ future_to_query' = [future_to_query EXCEPT ![q] = "running"]
    /\ UNCHANGED <<pool_pc, timeouts, pool_research_data, writes>>
    /\ UNCHANGED <<pipeline_vars, parser_vars, pair_vars, session_vars,
                   clock_vars, route_vars, entry_vars>>

\* A worker that sends the request of a failed query again.
worker_finish_retrying(q) ==
    /\ future_to_query[q] = "running"
    /\ future_to_query' =
            [future_to_query EXCEPT
                ![q] = IF q \in timeouts THEN "queued" ELSE "done"]
    /\ UNCHANGED <<pool_pc, timeouts, pool_research_data, writes>>
    /\ UNCHANGED <<pipeline_vars, parser_vars, pair_vars, session_vars,
                   clock_vars, route_vars, entry_vars>>

\* Lines 70 and 73: search_internet returns and the future is done.
worker_finish(q) ==
    /\ future_to_query[q] = "running"
    /\ future_to_query' = [future_to_query EXCEPT ![q] = "done"]
    /\ UNCHANGED <<pool_pc, timeouts, pool_research_data, writes>>
    /\ UNCHANGED <<pipeline_vars, parser_vars, pair_vars, session_vars,
                   clock_vars, route_vars, entry_vars>>

\* A loop that leaves out the queries without results.
collect_dropping(q) ==
    /\ pool_pc = "collecting"
    /\ future_to_query[q] = "done"
    /\ future_to_query' = [future_to_query EXCEPT ![q] = "collected"]
    /\ IF search_internet(q) = << >>
       THEN UNCHANGED <<pool_research_data, writes>>
       ELSE /\ pool_research_data' =
                (QueryOf(q) :> search_internet(q)) @@ pool_research_data
            /\ writes' = [writes EXCEPT ![q] = Append(@, "main")]
    /\ UNCHANGED <<pool_pc, timeouts>>
    /\ UNCHANGED <<pipeline_vars, parser_vars, pair_vars, session_vars,
                   clock_vars, route_vars, entry_vars>>

\* A loop that is handed a completed future again.
collect_again(q) ==
    /\ pool_pc = "collecting"
    /\ future_to_query[q] \in {"done", "collected"}
    /\ Len(writes[q]) < 2
    /\ future_to_query' = [future_to_query EXCEPT ![q] = "collected"]
    /\ pool_research_data' =
            (QueryOf(q) :> search_internet(q)) @@ pool_research_data
    /\ writes' = [writes EXCEPT ![q] = Append(@, "main")]
    /\ UNCHANGED <<pool_pc, timeouts>>
    /\ UNCHANGED <<pipeline_vars, parser_vars, pair_vars, session_vars,
                   clock_vars, route_vars, entry_vars>>

\* Lines 113-120: as_completed hands the main thread a completed future,
\* each future once; the main thread stores its result under its query.
collect(q) ==
    /\ pool_pc = "collecting"
    /\ future_to_query[q] = "done"
    /\ future_to_query' = [future_to_query EXCEPT ![q] = "collected"]
    /\ pool_research_data' =
            (QueryOf(q) :> search_internet(q)) @@ pool_research_data
    /\ writes' = [writes EXCEPT ![q] = Append(@, "main")]
    /\ UNCHANGED <<pool_pc, timeouts>>
    /\ UNCHANGED <<pipeline_vars, parser_vars, pair_vars, session_vars,
                   clock_vars, route_vars, entry_vars>>

\* Line 121: the loop is over, the executor is shut down, the dict returned.
research_return ==
    /\ pool_pc = "collecting"
    /\ WithState("collected") = Queries
    /\ pool_pc' = "returned"
    /\ UNCHANGED <<timeouts, future_to_query, pool_research_data, writes>>
    /\ UNCHANGED <<pipeline_vars, parser_vars, pair_vars, session_vars,
                   clock_vars, route_vars, entry_vars>>

ResearchNext ==
    \/ submit
    \/ \E q \in Queries : worker_start(q)
    \/ \E q \in Queries : worker_finish(q)
    \/ \E q \in Queries : collect(q)
    \/ research_return

ResearchSpec == ResearchInit /\ [][ResearchNext]_vars

-----------------------------------------------------------------------------
(* The time one call of research_segment_comprehensive takes.  The time is  *)
(* that of the requests, each taken to end within its timeout; the rest of  *)
(* the code is taken to take none.                                          *)

SearchTimeout == 10

SnippetTimeout == 5

NumResults == 5

\* Lines 57-70: the longest a worker is busy with a query: the search
\* request and then the snippet request of each of its results, one after
\* the other; the results are at most num_results (line 60) and a search
\* that failed has none.
query_time_limit(q) ==
    SearchTimeout + Len(search_internet(q)) * SnippetTimeout

\* What the queries of a call take: each as long as it may, each one short
\* request, or the odd ones long and the even ones short.
DurationPatterns ==
    { [q \in Queries |-> query_time_limit(q)],
      [q \in Queries |-> SnippetTimeout],
      [q \in Queries |->
            IF q % 2 = 1 THEN query_time_limit(q) ELSE SnippetTimeout] }

TimedInit ==
    /\ pool_pc = "submitting"
    /\ timeouts \in TimeoutSets
    /\ future_to_query = [q \in Queries |-> "unsubmitted"]
    /\ pool_research_data = EmptyDict
    /\ writes = [q \in Queries |-> << >>]
    /\ now = 0
    /\ durations \in DurationPatterns
    /\ elapsed = [q \in Queries |-> 0]
    /\ PipelineIdle
    /\ ParserIdle
    /\ PairIdle
    /\ SessionIdle
    /\ RouteIdle
    /\ SearchIdle
    /\ ArchIdle
    /\ BootIdle
    /\ SiteIdle

\* Lines 57 and 81: time passes while requests are in flight.  A worker
\* whose query is over has returned, a free worker has taken the next
\* queued query and the main thread has stored what is done.
tick ==
    /\ pool_pc = "collecting"
    /\ WithState("running") # {}
    /\ WithState("done") = {}
    /\ \A q \in WithState("running") : elapsed[q] < durations[q]
    /\ ~ \E q \in Queries : ENABLED worker_start(q)
    /\ now' = now + SnippetTimeout
    /\ elapsed' =
            [q \in Queries |->
                IF future_to_query[q] = "running"
                THEN elapsed[q] + SnippetTimeout
                ELSE elapsed[q]]
    /\ UNCHANGED durations
    /\ UNCHANGED <<pipeline_vars, parser_vars, pool_vars, pair_vars,
                   session_vars, route_vars, entry_vars>>

\* Lines 70 and 73, on the clock: the worker returns when its requests are
\* over.
timed_worker_finish(q) ==
    /\ elapsed[q] = durations[q]
    /\ worker_finish(q)

TimedNext ==
    \/ submit
    \/ \E q \in Queries : worker_start(q)
    \/ \E q \in Queries : timed_worker_finish(q)
    \/ \E q \in Queries : collect(q)
    \/ research_return
    \/ tick

TimedSpec == TimedInit /\ [][TimedNext]_vars

-----------------------------------------------------------------------------
(* Two requests side by side: the queries planned for each (lines 2426,     *)
(* 2436 and 95-106) and the fallback of each (lines 123-486).               *)

\* The ways a request names its segment, its product and its price.
SegmentParts ==
    { EmptyDict, [segmento |-> "yoga"], [nicho |-> "yoga"],
      [segmento |-> "pilates"] }

ProdutoParts == { EmptyDict, [produto |-> "curso"], [produto |-> "mentoria"] }

PrecoParts ==
    { EmptyDict } \cup
    { [preco_float |-> x] :
        x \in {NoneVal, Num(497), NumStr(497), Num(1234567), BadStr, InfVal,
               OtherVal, Num(0), Num(1), Num(2), Num(-3)} }

PairRequests ==
    { sp @@ pp @@ fp : sp \in SegmentParts, pp \in ProdutoParts,
                       fp \in PrecoParts }

\* Line 2426: the segment generate_analysis reads from the request.
segment_of(d) == Get(d, "segmento", Get(d, "nicho", ""))

\* A plan that also looks at the product of the request.
plan_queries_by_produto(d) ==
    research_queries(segment_of(d) \o " " \o Get(d, "produto", ""))

\* Lines 2426, 2436 and 95-106: the queries planned for a request.
plan_queries(d) == research_queries(segment_of(d))

\* The outcome of _create_fallback_analysis(d): the document, or the
\* exception of int(preco).
fallback_outcome(d) ==
    IF fallback_raises(d) THEN [raised |-> "OverflowError"]
    ELSE _create_fallback_analysis(d)

PairInit ==
    /\ pair_pc = "start"
    /\ req_a \in PairRequests
    /\ req_b \in PairRequests
    /\ plan_a = << >>
    /\ plan_b = << >>
    /\ doc_a = EmptyDict
    /\ doc_b = EmptyDict
    /\ PipelineIdle
    /\ ParserIdle
    /\ PoolIdle
    /\ SessionIdle
    /\ ClockIdle
    /\ RouteIdle
    /\ SearchIdle
    /\ ArchIdle
    /\ BootIdle
    /\ SiteIdle

plan_first ==
    /\ pair_pc = "start"
    /\ plan_a' = plan_queries(req_a)
    /\ pair_pc' = "planned_a"
    /\ UNCHANGED <<req_a, req_b, plan_b, doc_a, doc_b>>
    /\ UNCHANGED <<pipeline_vars, parser_vars, pool_vars, session_vars,
                   clock_vars, route_vars, entry_vars>>

plan_second ==
    /\ pair_pc = "planned_a"
    /\ plan_b' = plan_queries(req_b)
    /\ pair_pc' = "planned_b"
    /\ UNCHANGED <<req_a, req_b, plan_a, doc_a, doc_b>>
    /\ UNCHANGED <<pipeline_vars, parser_vars, pool_vars, session_vars,
                   clock_vars, route_vars, entry_vars>>

fallback_first ==
    /\ pair_pc = "planned_b"
    /\ doc_a' = fallback_outcome(req_a)
    /\ pair_pc' = "fell_a"
    /\ UNCHANGED <<req_a, req_b, plan_a, plan_b, doc_b>>
    /\ UNCHANGED <<pipeline_vars, parser_vars, pool_vars, session_vars,
                   clock_vars, route_vars, entry_vars>>

fallback_second ==
    /\ pair_pc = "fell_a"
    /\ doc_b' = fallback_outcome(req_b)
    /\ pair_pc' = "done"
    /\ UNCHANGED <<req_a, req_b, plan_a, plan_b, doc_a>>
    /\ UNCHANGED <<pipeline_vars, parser_vars, pool_vars, session_vars,
                   clock_vars, route_vars, entry_vars>>

PairNext ==
    \/ plan_first
    \/ plan_second
    \/ fallback_first
    \/ fallback_second

PairSpec == PairInit /\ [][PairNext]_vars

-----------------------------------------------------------------------------
(* A caller that calls generate_analysis(data) up to MaxRuns times with the *)
(* same dict, against a backend whose answers are laid down beforehand, and *)
(* a clock that may run past the time allowed to a call.                    *)

Runs == 1..MaxRuns

Answer(st) == [status |-> st, payload |-> 1]

\* What the backend answers phase by phase in one call: valid JSON for every
\* phase, or unparsable text for phase 1, no text for phase 2 and valid JSON
\* for the others.
AnswerPatterns ==
    { [i \in Phases |-> Answer("SUCCEEDED")],
      [i \in Phases |-> IF i = 1 THEN Answer("FAILED_PARSE")
                        ELSE IF i = 2 THEN Answer("FAILED_EMPTY")
                        ELSE Answer("SUCCEEDED")] }

SessionInit ==
    /\ \E key_present \in BOOLEAN, construct_ok \in BOOLEAN :
        LET c == GeminiClient_init(key_present, construct_ok) IN
        /\ api_key = c.api_key
        /\ model = c.model
        /\ client = c.client
    /\ pc = "idle"
    /\ exc = "none"
    /\ data \in Requests
    /\ request = data
    /\ research_data = EmptyDict
    /\ research_summary = << >>
    /\ full_analysis_results = EmptyDict
    /\ phase_num = 0
    /\ phase_prompt = NoPrompt
    /\ phase_status = [i \in Phases |-> "PENDING"]
    /\ calls = [i \in Phases |-> 0]
    /\ ret = EmptyDict
    /\ run = 1
    /\ script \in [Runs -> AnswerPatterns]
    /\ deadline = NoDeadline
    /\ ParserIdle
    /\ PoolIdle
    /\ PairIdle
    /\ ClockIdle
    /\ RouteIdle
    /\ SearchIdle
    /\ ArchIdle
    /\ BootIdle
    /\ SiteIdle

\* Lines 2456-2481 against the backend of the script.
scripted_generate_content_returns ==
    /\ generate_content_returns
    /\ LET e == script[run][phase_num] IN
       /\ phase_status'[phase_num] = e.status
       /\ e.status = "SUCCEEDED" => data'[PhaseKey(phase_num)] = e.payload

\* The time allowed to the call runs out while the call is in progress.
\* Nothing in generate_analysis reads a clock before line 2489.
deadline_expires ==
    /\ pc \in {"research", "compose", "calling"}
    /\ ~deadline.expired
    /\ deadline' = [expired |-> TRUE, calls |-> calls]
    /\ UNCHANGED <<run, script>>
    /\ UNCHANGED <<pipeline_vars, parser_vars, pool_vars, pair_vars,
                   clock_vars, route_vars, entry_vars>>

\* Line 2419 again: the caller hands the same dict to a new call, whose
\* locals start afresh.
call_again ==
    /\ pc \in {"returned", "raised"}
    /\ run < MaxRuns
    /\ run' = run + 1
    /\ deadline' = NoDeadline
    /\ pc' = "idle"
    /\ exc' = "none"
    /\ request' = data
    /\ research_data' = EmptyDict
    /\ research_summary' = << >>
    /\ full_analysis_results' = EmptyDict
    /\ phase_num' = 0
    /\ phase_prompt' = NoPrompt
    /\ phase_status' = [i \in Phases |-> "PENDING"]
    /\ calls' = [i \in Phases |-> 0]
    /\ ret' = EmptyDict
    /\ UNCHANGED <<api_key, model, client, data, script>>
    /\ UNCHANGED <<parser_vars, pool_vars, pair_vars,
                   clock_vars, route_vars, entry_vars>>

SessionNext ==
    \/ generate_analysis_enter
    \/ research
    \/ start_phase
    \/ generate_content_raises
    \/ scripted_generate_content_returns
    \/ assemble
    \/ deadline_expires
    \/ call_again

SessionSpec == SessionInit /\ [][SessionNext]_vars

-----------------------------------------------------------------------------
(* One request to the /analyze route, routes/analysis.py lines 12-173 *)

\* The JSON bodies of the requests.
RouteRequests ==
    { EmptyDict,
      [niche |-> ""],
      [user_id |-> 7],
      [niche |-> "yoga"],
      [niche |-> "yoga", user_id |-> 0],
      [niche |-> "yoga", user_id |-> 7],
      [niche |-> "pilates", user_id |-> 8] }

\* Line 140: gemini_client.generate_analysis(prompt) raises, returns a text
\* or returns something that is not a text.  The module of
\* services/gemini_client.py defines no function of that name, only the
\* class, so what the call does depends on what the package binds to the
\* name gemini_client.
GenerationOutcomes ==
    { [kind |-> "raised", text |-> << >>],
      [kind |-> "dict", text |-> << >>] }
    \cup { [kind |-> "text", text |-> t] :
            t \in { <<1>>, <<2>>, <<3>>, <<JUNK>>, <<DEEP>>,
                    <<FENCE_OPEN, 1, FENCE_CLOSE>> } }

\* The value json.loads returns at line 145 for a JSON text: an object with
\* the field analise_texto_formatado, an object without it, or a list.
decode_document(v) ==
    CASE v = 1 -> [kind |-> "dict",
                   value |-> [analise_texto_formatado |-> "# Avatar",
                              escopo |-> "yoga"]]
      [] v = 2 -> [kind |-> "dict", value |-> [escopo |-> "yoga"]]
      [] OTHER -> [kind |-> "list", value |-> EmptyDict]

\* The database operations of lines 148-156, any of which may raise.
DbFaults == {"none", "SessionLocal", "add", "commit", "refresh", "close"}

\* markdown2.markdown of line 159.
markdown(md) == "<p>" \o md \o "</p>"

error_response(status, message) ==
    [status |-> status, error |-> message, analysis_html |-> "",
     analysis_id |-> 0, analysis_data |-> EmptyDict]

\* Lines 171-173.
unexpected_error ==
    error_response(500, "Ocorreu um erro inesperado ao processar sua solicitacao.")

\* Lines 167-170.
decode_error ==
    error_response(500, "Falha ao decodificar a resposta da IA. A resposta nao e um JSON valido.")

RouteInit ==
    /\ route_pc = "received"
    /\ route_request \in RouteRequests
    /\ gemini_response = NoGeneration
    /\ analysis_data = NoDocument
    /\ db_fault \in DbFaults
    /\ db = "none"
    /\ rows = << >>
    /\ http_response = NoResponse
    /\ PipelineIdle
    /\ ParserIdle
    /\ PoolIdle
    /\ PairIdle
    /\ SessionIdle
    /\ ClockIdle
    /\ SearchIdle
    /\ ArchIdle
    /\ BootIdle
    /\ SiteIdle

route_others == <<pipeline_vars, parser_vars, pool_vars, pair_vars,
                  session_vars, clock_vars, entry_vars>>

\* Lines 16-23: a request without niche or user_id is answered 400.
route_validate ==
    /\ route_pc = "received"
    /\ LET niche == Get(route_request, "niche", "")
           user_id == Get(route_request, "user_id", 0)
       IN IF niche = ""
          THEN /\ http_response' = error_response(400, "Niche is required")
               /\ route_pc' = "responded"
          ELSE IF user_id = 0
          THEN /\ http_response' = error_response(400, "User ID is required")
               /\ route_pc' = "responded"
          ELSE /\ route_pc' = "generating"
               /\ UNCHANGED http_response
    /\ UNCHANGED <<route_request, gemini_response, analysis_data, db_fault,
                   db, rows>>
    /\ UNCHANGED route_others

\* Line 140; an exception goes to the except clause of line 171.
route_generate ==
    /\ route_pc = "generating"
    /\ \E o \in GenerationOutcomes :
        IF o.kind = "raised"
        THEN /\ http_response' = unexpected_error
             /\ route_pc' = "responded"
             /\ UNCHANGED gemini_response
        ELSE /\ gemini_response' = o
             /\ route_pc' = "decoding"
             /\ UNCHANGED http_response
    /\ UNCHANGED <<route_request, analysis_data, db_fault, db, rows>>
    /\ UNCHANGED route_others

\* Line 145: json.loads raises TypeError for what is not a text and
\* RecursionError for a text nested too deep, both caught at line 171, and
\* json.JSONDecodeError for a text that is not JSON, caught at line 167.
route_decode ==
    /\ route_pc = "decoding"
    /\ LET r == json_loads(gemini_response.text) IN
       IF gemini_response.kind # "text" \/ r.raised
       THEN /\ http_response' = unexpected_error
            /\ route_pc' = "responded"
            /\ UNCHANGED analysis_data
       ELSE IF ~r.ok
       THEN /\ http_response' = decode_error
            /\ route_pc' = "responded"
            /\ UNCHANGED analysis_data
       ELSE /\ analysis_data' = decode_document(r.value)
            /\ route_pc' = "opening"
            /\ UNCHANGED http_response
    /\ UNCHANGED <<route_request, gemini_response, db_fault, db, rows>>
    /\ UNCHANGED route_others

\* Line 148: SessionLocal(), outside the inner try.
route_open ==
    /\ route_pc = "opening"
    /\ IF db_fault = "SessionLocal"
       THEN /\ http_response' = unexpected_error
            /\ route_pc' = "responded"
            /\ UNCHANGED db
       ELSE /\ db' = "open"
            /\ route_pc' = "adding"
            /\ UNCHANGED http_response
    /\ UNCHANGED <<route_request, gemini_response, analysis_data, db_fault,
                   rows>>
    /\ UNCHANGED route_others

\* An operation of the inner try raises and the session is left as it is, as
\* a handler without the finally of lines 155-156 would leave it.
route_db_raises_leaking ==
    /\ db' = db
    /\ http_response' = unexpected_error
    /\ route_pc' = "responded"

\* An operation of the inner try raises: the finally of lines 155-156 closes
\* the session and the exception goes to the except clause of line 171.
route_db_raises ==
    /\ db' = IF db_fault = "close" THEN "open" ELSE "closed"
    /\ http_response' = unexpected_error
    /\ route_pc' = "responded"

\* Lines 150-151.
route_add ==
    /\ route_pc = "adding"
    /\ IF db_fault = "add"
       THEN route_db_raises
       ELSE /\ route_pc' = "committing"
            /\ UNCHANGED <<db, http_response>>
    /\ UNCHANGED <<route_request, gemini_response, analysis_data, db_fault,
                   rows>>
    /\ UNCHANGED route_others

\* Line 152.
route_commit ==
    /\ route_pc = "committing"
    /\ IF db_fault = "commit"
       THEN /\ route_db_raises
            /\ UNCHANGED rows
       ELSE /\ rows' = Append(rows, analysis_data)
            /\ route_pc' = "refreshing"
            /\ UNCHANGED <<db, http_response>>
    /\ UNCHANGED <<route_request, gemini_response, analysis_data, db_fault>>
    /\ UNCHANGED route_others

\* Lines 153-154.
route_refresh ==
    /\ route_pc = "refreshing"
    /\ IF db_fault = "refresh"
       THEN route_db_raises
       ELSE /\ route_pc' = "closing"
            /\ UNCHANGED <<db, http_response>>
    /\ UNCHANGED <<route_request, gemini_response, analysis_data, db_fault,
                   rows>>
    /\ UNCHANGED route_others

\* Lines 155-156 after a try that did not raise.
route_close ==
    /\ route_pc = "closing"
    /\ IF db_fault = "close"
       THEN route_db_raises
       ELSE /\ db' = "closed"
            /\ route_pc' = "rendering"
            /\ UNCHANGED http_response
    /\ UNCHANGED <<route_request, gemini_response, analysis_data, db_fault,
                   rows>>
    /\ UNCHANGED route_others

\* Lines 159-165: analysis_data.get is an AttributeError for a list, caught
\* at line 171.
route_respond ==
    /\ route_pc = "rendering"
    /\ http_response' =
        IF analysis_data.kind # "dict"
        THEN unexpected_error
        ELSE [status |-> 200,
              error |-> "",
              analysis_html |->
                    markdown(Get(analysis_data.value,
                                 "analise_texto_formatado",
                                 "Nenhuma analise de texto foi gerada.")),
              analysis_id |-> Len(rows),
              analysis_data |-> analysis_data.value]
    /\ route_pc' = "responded"
    /\ UNCHANGED <<route_request, gemini_response, analysis_data, db_fault,
                   db, rows>>
    /\ UNCHANGED route_others

RouteNext ==
    \/ route_validate
    \/ route_generate
    \/ route_decode
    \/ route_open
    \/ route_add
    \/ route_commit
    \/ route_refresh
    \/ route_close
    \/ route_respond

RouteSpec == RouteInit /\ [][RouteNext]_vars

-----------------------------------------------------------------------------
(* One call of search_internet(query, 5), lines 50-91 *)

\* The result links of a page, by rank.  text is the length of the text of
\* the linked page, -1 when fetching it fails; a link may lack its title or
\* its href.
Anchor(k, title, url, text) ==
    [title |-> IF title THEN "t" \o ToString(k) ELSE "",
     url |-> IF url THEN "u" \o ToString(k) ELSE "",
     text |-> text]

\* At every rank a link to a long page, a link whose page cannot be fetched
\* or a link without title; also a short page at the first rank and a link
\* without href at the second.
AnchorsAt(k) ==
    { Anchor(k, TRUE, TRUE, 600), Anchor(k, TRUE, TRUE, -1),
      Anchor(k, FALSE, TRUE, 600) }
    \cup (IF k = 1 THEN { Anchor(k, TRUE, TRUE, 120) } ELSE {})
    \cup (IF k = 2 THEN { Anchor(k, TRUE, FALSE, 600) } ELSE {})

RECURSIVE PagesOfLen(_)
PagesOfLen(n) ==
    IF n = 0 THEN { << >> }
    ELSE { Append(p, a) : p \in PagesOfLen(n - 1), a \in AnchorsAt(n) }

Pages == UNION { PagesOfLen(n) : n \in 0..MaxAnchors }

\* Lines 75-91: the text of the page cut at 500 characters and followed by
\* "...", or "" when anything fails; snippets are given by their length.
_extract_snippet(anchor) ==
    IF anchor.text < 0 THEN 0
    ELSE IF anchor.text > 500 THEN 500 + 3
    ELSE anchor.text

SearchInit ==
    /\ \E fails \in BOOLEAN, page \in Pages :
        /\ fails => page = << >>
        /\ search = [pc |-> "request", fails |-> fails, anchors |-> page,
                     cursor |-> 0, results |-> << >>]
    /\ PipelineIdle
    /\ ParserIdle
    /\ PoolIdle
    /\ PairIdle
    /\ SessionIdle
    /\ ClockIdle
    /\ RouteIdle
    /\ ArchIdle
    /\ BootIdle
    /\ SiteIdle

search_others ==
    <<pipeline_vars, parser_vars, pool_vars, pair_vars, session_vars,
      clock_vars, route_vars, arch, boot, site>>

\* Lines 52-59 and 71-73: the request of the search page; when it fails the
\* except clause returns [].
search_request ==
    /\ search.pc = "request"
    /\ search' = IF search.fails
                 THEN [search EXCEPT !.pc = "returned"]
                 ELSE [search EXCEPT !.pc = "loop", !.cursor = 1]
    /\ UNCHANGED search_others

\* A loop body that leaves out a result whose snippet could not be fetched.
search_take_dropping ==
    /\ search.pc = "loop"
    /\ search.cursor <= Min(Len(search.anchors), NumResults)
    /\ LET a == search.anchors[search.cursor] IN
       search' =
        [search EXCEPT
            !.cursor = @ + 1,
            !.results =
                IF a.title # "" /\ a.url # "" /\ a.text >= 0
                THEN Append(@, [title |-> a.title, url |-> a.url,
                                snippet |-> _extract_snippet(a)])
                ELSE @]
    /\ UNCHANGED search_others

\* Lines 60-68: the next of the first num_results links; it is listed when
\* it has a title and a url, with the snippet of its page.
search_take ==
    /\ search.pc = "loop"
    /\ search.cursor <= Min(Len(search.anchors), NumResults)
    /\ LET a == search.anchors[search.cursor] IN
       search' =
        [search EXCEPT
            !.cursor = @ + 1,
            !.results =
                IF a.title # "" /\ a.url # ""
                THEN Append(@, [title |-> a.title, url |-> a.url,
                                snippet |-> _extract_snippet(a)])
                ELSE @]
    /\ UNCHANGED search_others

\* Lines 69-70.
search_return ==
    /\ search.pc = "loop"
    /\ search.cursor > Min(Len(search.anchors), NumResults)
    /\ search' = [search EXCEPT !.pc = "returned"]
    /\ UNCHANGED search_others

SearchNext ==
    \/ search_request
    \/ search_take
    \/ search_return

SearchSpec == SearchInit /\ [][SearchNext]_vars

-----------------------------------------------------------------------------
(* The database configuration at startup, main.py lines 34-84 *)

max_retries == 3

\* DATABASE_URL: unset, or a connection string.
DatabaseUrls ==
    { "", "postgresql://db/app", "postgresql+psycopg2://db/app",
      "sqlite:///app.db" }

\* Lines 38-39: a string that starts with postgresql:// gets the driver name.
fix_database_url(url) ==
    IF url = "postgresql://db/app" THEN "postgresql+psycopg2://db/app" ELSE url

\* Per attempt, whether SELECT 1 goes through.
ConnectOutcomes == [1..max_retries -> BOOLEAN]

BootInit ==
    /\ \E url \in DatabaseUrls, init_ok \in BOOLEAN, up \in ConnectOutcomes :
        boot = [pc |-> "configure", database_url |-> url, uri |-> "",
                init_ok |-> init_ok, up |-> up, attempt |-> 0, tries |-> 0,
                sleeps |-> 0, connected |-> FALSE, log |-> << >>]
    /\ PipelineIdle
    /\ ParserIdle
    /\ PoolIdle
    /\ PairIdle
    /\ SessionIdle
    /\ ClockIdle
    /\ RouteIdle
    /\ SearchIdle
    /\ ArchIdle
    /\ SiteIdle

boot_others ==
    <<pipeline_vars, parser_vars, pool_vars, pair_vars, session_vars,
      clock_vars, route_vars, search, arch, site>>

\* Lines 34-61 and 80-84: without DATABASE_URL the application starts
\* without database; an exception of db.init_app is caught at line 80.
boot_configure ==
    /\ boot.pc = "configure"
    /\ boot' =
        IF boot.database_url = ""
        THEN [boot EXCEPT !.pc = "started",
                          !.log = Append(@, "no DATABASE_URL")]
        ELSE IF ~boot.init_ok
        THEN [boot EXCEPT !.pc = "started",
                          !.uri = fix_database_url(boot.database_url),
                          !.log = Append(@, "configuration error")]
        ELSE [boot EXCEPT !.pc = "attempt",
                          !.uri = fix_database_url(boot.database_url)]
    /\ UNCHANGED boot_others

\* Lines 66-71: one attempt; a success leaves the loop.
boot_attempt ==
    /\ boot.pc = "attempt"
    /\ boot' =
        IF boot.up[boot.attempt + 1]
        THEN [boot EXCEPT !.tries = @ + 1, !.connected = TRUE,
                          !.pc = "started",
                          !.log = Append(@, "connected")]
        ELSE [boot EXCEPT !.tries = @ + 1, !.pc = "failed"]
    /\ UNCHANGED boot_others

\* An except clause that waits after the last attempt as well.
boot_except_waiting ==
    /\ boot.pc = "failed"
    /\ boot' =
        IF boot.attempt < max_retries - 1
        THEN [boot EXCEPT !.sleeps = @ + 1, !.attempt = @ + 1,
                          !.pc = "attempt",
                          !.log = Append(@, "retrying")]
        ELSE [boot EXCEPT !.sleeps = @ + 1, !.pc = "started",
                          !.log = Append(@, "not available")]
    /\ UNCHANGED boot_others

\* Lines 72-78: the except clause of an attempt: a warning and a wait of two
\* seconds when an attempt remains, two log lines after the last one.
boot_except ==
    /\ boot.pc = "failed"
    /\ boot' =
        IF boot.attempt < max_retries - 1
        THEN [boot EXCEPT !.sleeps = @ + 1, !.attempt = @ + 1,
                          !.pc = "attempt",
                          !.log = Append(@, "retrying")]
        ELSE [boot EXCEPT !.pc = "started",
                          !.log = Append(@, "not available")]
    /\ UNCHANGED boot_others

BootNext ==
    \/ boot_configure
    \/ boot_attempt
    \/ boot_except

BootSpec == BootInit /\ [][BootNext]_vars

-----------------------------------------------------------------------------
(* The /signup and /login routes, routes/user.py lines 7-40: two requests   *)
(* served by two threads over one users table.                              *)

SiteRequests == {"first", "second"}

\* The JSON bodies, and the database operation that raises for the request.
SiteBodies ==
    [kind : {"signup", "login"}, email : {"ana@x.com", "bia@x.com"},
     password : {"pw", "other"},
     fault : {"none", "SessionLocal", "query", "commit", "close"}]

\* The users table admits one row per email: the unique constraint of the
\* User model.
users_email_unique == TRUE

\* User.set_password and User.check_password: the hash of the password is
\* stored and compared.
password_hash(password) == "hash(" \o password \o ")"

check_password(user, password) == user.password_hash = password_hash(password)

WithEmail(email) ==
    {k \in 1..Len(site.users) : site.users[k].email = email}

SiteInit ==
    /\ \E bodies \in [SiteRequests -> SiteBodies] :
        site = [pc |-> "serving",
                users |-> << >>,
                reqs |-> [r \in SiteRequests |->
                            [body |-> bodies[r], pc |-> "received",
                             session |-> "none", found |-> FALSE,
                             status |-> 0, user_id |-> 0]]]
    /\ PipelineIdle
    /\ ParserIdle
    /\ PoolIdle
    /\ PairIdle
    /\ SessionIdle
    /\ ClockIdle
    /\ RouteIdle
    /\ SearchIdle
    /\ ArchIdle
    /\ BootIdle

site_others ==
    <<pipeline_vars, parser_vars, pool_vars, pair_vars, session_vars,
      clock_vars, route_vars, search, arch, boot>>

\* The finally clause of lines 23-24 and 39-40 on the way out with the given
\* status; when db.close() raises, its exception replaces the response and
\* the framework answers 500.
site_leave(req, status) ==
    IF req.body.fault = "close"
    THEN [req EXCEPT !.pc = "done", !.status = 500]
    ELSE [req EXCEPT !.pc = "done", !.status = status, !.session = "closed"]

\* Lines 9-13 and 28-32: the body is read and the session opened, outside
\* the try; an exception of SessionLocal() leaves the handler.
site_open(r) ==
    /\ site.pc = "serving"
    /\ site.reqs[r].pc = "received"
    /\ site' =
        [site EXCEPT !.reqs[r] =
            IF @.body.fault = "SessionLocal"
            THEN [@ EXCEPT !.pc = "done", !.status = 500]
            ELSE [@ EXCEPT !.pc = "query", !.session = "open"]]
    /\ UNCHANGED site_others

\* A signup that goes on to add the user although the query found one.
site_query_accepting(r) ==
    /\ site.pc = "serving"
    /\ site.reqs[r].pc = "query"
    /\ LET req == site.reqs[r]
           found == WithEmail(req.body.email) # {}
       IN site' =
            [site EXCEPT !.reqs[r] =
                IF req.body.fault = "query"
                THEN site_leave(req, 500)
                ELSE [req EXCEPT !.found = found, !.pc = "commit"]]
    /\ UNCHANGED site_others

\* Lines 15-16 and 34-38: the query for the user with the email.  signup
\* answers 400 when there is one; login answers 200 with the id of the user
\* when the password matches and 401 otherwise.
site_query(r) ==
    /\ site.pc = "serving"
    /\ site.reqs[r].pc = "query"
    /\ LET req == site.reqs[r]
           found == WithEmail(req.body.email) # {}
           k == CHOOSE k \in WithEmail(req.body.email) : TRUE
       IN site' =
            [site EXCEPT !.reqs[r] =
                IF req.body.fault = "query"
                THEN site_leave(req, 500)
                ELSE IF req.body.kind = "signup"
                THEN IF found
                     THEN site_leave([req EXCEPT !.found = TRUE], 400)
                     ELSE [req EXCEPT !.pc = "commit"]
                ELSE IF found /\ check_password(site.users[k], req.body.password)
                THEN site_leave([req EXCEPT !.found = TRUE, !.user_id = k], 200)
                ELSE site_leave([req EXCEPT !.found = found], 401)]
    /\ UNCHANGED site_others

\* Lines 18-22: the user is added and committed; the commit raises when the
\* database fails or when the table already has the email.
site_commit(r) ==
    /\ site.pc = "serving"
    /\ site.reqs[r].pc = "commit"
    /\ LET req == site.reqs[r]
           taken == users_email_unique /\ WithEmail(req.body.email) # {}
       IN IF req.body.fault = "commit" \/ taken
          THEN site' = [site EXCEPT !.reqs[r] = site_leave(req, 500)]
          ELSE site' =
                [site EXCEPT
                    !.users = Append(@, [email |-> req.body.email,
                                         password_hash |->
                                            password_hash(req.body.password),
                                         by |-> r]),
                    !.reqs[r] = site_leave(req, 201)]
    /\ UNCHANGED site_others

SiteNext ==
    \/ \E r \in SiteRequests : site_open(r)
    \/ \E r \in SiteRequests : site_query(r)
    \/ \E r \in SiteRequests : site_commit(r)

SiteSpec == SiteInit /\ [][SiteNext]_vars

-----------------------------------------------------------------------------
(* The three handlers that open a database session: analyze of              *)
(* routes/analysis.py, signup and login of routes/user.py.                  *)

HandlersInit == RouteInit \/ SiteInit

HandlersNext == RouteNext \/ SiteNext

HandlersSpec == HandlersInit /\ [][HandlersNext]_vars

-----------------------------------------------------------------------------
(* The /archeology route, models/analysis.py lines 43-132: requests served  *)
(* one after another by one process, with its module-level clients and the  *)
(* cache of get_gemini_response_cached.                                     *)

\* Lines 68-98: the generation steps of one request.
NumSteps == 8

\* Line 53: lru_cache(maxsize=128).
CacheSize == 128

\* The methods the class GeminiClient of services/gemini_client.py defines.
GeminiClientMethods ==
    {"__init__", "search_internet", "_extract_snippet",
     "research_segment_comprehensive", "_create_fallback_analysis",
     "_generate_phase_prompt", "generate_analysis"}

\* Lines 59-62: the JSON bodies; 0 and "" stand for a field that is absent
\* or empty.
ArchBodies ==
    [user_id : {0, 7}, text_input : {"", "vaso"}, image_input : {"", "foto"}]

\* Lines 34-50: the module-level clients, None when the configuration or the
\* construction failed.
ArchClients ==
    [gemini_client : {"None", "GeminiClient"}, supabase : {"None", "Client"}]

\* text_input or image_input, the entry each prompt ends with.
arch_input(body) ==
    IF body.text_input # "" THEN body.text_input ELSE body.image_input

\* Lines 69-97: the earlier outputs the prompt of step k is built from.
StepUses(k) ==
    CASE k = 1 -> {}
      [] k = 2 -> {1}
      [] k = 3 -> {1, 2}
      [] k = 4 -> {1, 2, 3}
      [] k = 5 -> {1, 2, 3, 4}
      [] k = 6 -> {5}
      [] k = 7 -> {1, 2, 3, 4, 5, 6}
      [] OTHER -> {7}

step_prompt(k, outputs, body) ==
    [step |-> k,
     earlier |-> [j \in StepUses(k) |-> outputs[j]],
     entry |-> arch_input(body)]

\* Line 55: gemini_client.generate_text(prompt, temperature, max_tokens).
\* The attribute lookup raises AttributeError on None and on an object whose
\* class has no such method; otherwise the backend is called and answers.
generate_text(handle, prompt) ==
    IF handle = "None"
    THEN [raised |-> TRUE, called |-> FALSE, value |-> "",
          error |-> "'NoneType' object has no attribute 'generate_text'"]
    ELSE IF "generate_text" \notin GeminiClientMethods
    THEN [raised |-> TRUE, called |-> FALSE, value |-> "",
          error |-> "'GeminiClient' object has no attribute 'generate_text'"]
    ELSE [raised |-> FALSE, called |-> TRUE, value |-> "text", error |-> ""]

\* The positions of the cache entries with the key.
CacheHits(cache, key) == {i \in 1..Len(cache) : cache[i].key = key}

Without(seq, i) == SubSeq(seq, 1, i - 1) \o SubSeq(seq, i + 1, Len(seq))

\* Lines 53-55: a call with only the prompt; the cache is kept in order of
\* use, the least recently used entry first.  A hit returns the stored value
\* without running the body; a miss runs the body, stores what it returns
\* and drops the least recently used entry beyond maxsize; an exception of
\* the body stores nothing.
get_gemini_response_cached(st, handle, prompt) ==
    IF CacheHits(st.cache, prompt) # {}
    THEN LET i == CHOOSE i \in CacheHits(st.cache, prompt) : TRUE
             e == st.cache[i]
         IN [raised |-> FALSE, value |-> e.value, error |-> "",
             cache |-> Append(Without(st.cache, i), e),
             calls |-> Append(st.calls,
                              [key |-> prompt, hit |-> TRUE,
                               backend |-> FALSE, raised |-> FALSE,
                               value |-> e.value])]
    ELSE LET r == generate_text(handle, prompt)
             grown == Append(st.cache, [key |-> prompt, value |-> r.value])
         IN [raised |-> r.raised, value |-> r.value, error |-> r.error,
             cache |-> IF r.raised THEN st.cache
                       ELSE IF Len(grown) > CacheSize THEN Tail(grown)
                       ELSE grown,
             calls |-> Append(st.calls,
                              [key |-> prompt, hit |-> FALSE,
                               backend |-> r.called, raised |-> r.raised,
                               value |-> r.value])]

\* Lines 68-98: the steps from k on, each through the cached wrapper; the
\* first exception ends them.
RECURSIVE run_steps(_, _, _, _, _)
run_steps(k, outputs, st, handle, body) ==
    IF k > NumSteps
    THEN [ok |-> TRUE, outputs |-> outputs, error |-> "",
          cache |-> st.cache, calls |-> st.calls]
    ELSE LET r == get_gemini_response_cached(st, handle,
                                             step_prompt(k, outputs, body))
         IN IF r.raised
            THEN [ok |-> FALSE, outputs |-> outputs, error |-> r.error,
                  cache |-> r.cache, calls |-> r.calls]
            ELSE run_steps(k + 1, Append(outputs, r.value),
                           [cache |-> r.cache, calls |-> r.calls],
                           handle, body)

arch_response(status, error, results) ==
    [status |-> status, error |-> error, results |-> results]

ArchInit ==
    /\ \E clients \in ArchClients :
        arch = [pc |-> "waiting",
                clients |-> clients,
                body |-> [user_id |-> 0, text_input |-> "",
                          image_input |-> ""],
                served |-> 0,
                cache |-> << >>,
                calls |-> << >>,
                before |-> 0,
                rows |-> << >>,
                response |-> arch_response(0, "", << >>)]
    /\ PipelineIdle
    /\ ParserIdle
    /\ PoolIdle
    /\ PairIdle
    /\ SessionIdle
    /\ ClockIdle
    /\ RouteIdle
    /\ SearchIdle
    /\ BootIdle
    /\ SiteIdle

arch_others ==
    <<pipeline_vars, parser_vars, pool_vars, pair_vars, session_vars,
      clock_vars, route_vars, search, boot, site>>

\* Lines 59-62: the next request arrives.
arch_receive ==
    /\ arch.pc \in {"waiting", "responded"}
    /\ arch.served < MaxArchRequests
    /\ \E body \in ArchBodies :
        arch' = [arch EXCEPT !.pc = "received", !.body = body,
                             !.served = @ + 1,
                             !.before = Len(arch.calls),
                             !.response = arch_response(0, "", << >>)]
    /\ UNCHANGED arch_others

\* Lines 64-65.
arch_validate ==
    /\ arch.pc = "received"
    /\ arch' =
        IF arch.body.user_id = 0
           \/ (arch.body.text_input = "" /\ arch.body.image_input = "")
        THEN [arch EXCEPT
                !.pc = "responded",
                !.response =
                    arch_response(400,
                        "User ID and either text or image input are required",
                        << >>)]
        ELSE [arch EXCEPT !.pc = "validated"]
    /\ UNCHANGED arch_others

\* Lines 67-132: the steps, the insert of line 101 and the response of line
\* 116, or the except clause of line 130 with the text of the exception.
arch_try ==
    /\ arch.pc = "validated"
    /\ LET r == run_steps(1, << >>,
                          [cache |-> arch.cache, calls |-> arch.calls],
                          arch.clients.gemini_client, arch.body)
       IN arch' =
            IF ~r.ok
            THEN [arch EXCEPT !.pc = "responded", !.cache = r.cache,
                              !.calls = r.calls,
                              !.response = arch_response(500, r.error, << >>)]
            ELSE IF arch.clients.supabase = "None"
            THEN [arch EXCEPT
                    !.pc = "responded", !.cache = r.cache, !.calls = r.calls,
                    !.response =
                        arch_response(500,
                            "'NoneType' object has no attribute 'table'",
                            << >>)]
            ELSE [arch EXCEPT
                    !.pc = "responded", !.cache = r.cache, !.calls = r.calls,
                    !.rows = Append(@, [request |-> arch.served,
                                        user_id |-> arch.body.user_id,
                                        text_input |-> arch.body.text_input,
                                        image_input |-> arch.body.image_input,
                                        results |-> r.outputs]),
                    !.response = arch_response(200, "", r.outputs)]
    /\ UNCHANGED arch_others

ArchNext ==
    \/ arch_receive
    \/ arch_validate
    \/ arch_try

ArchSpec == ArchInit /\ [][ArchNext]_vars

-----------------------------------------------------------------------------
(* Vocabulary of the properties *)

Returned == pc = "returned"
Raised == pc = "raised"
Finished == pc \in {"returned", "raised"}

\* The backend was unconfigured at startup: no key, or construction failed.
Unconfigured == model # "ready"

Succeeded(i) == phase_status[i] = "SUCCEEDED"
Attempted(i) == calls[i] >= 1
SucceededPhases == {i \in Phases : Succeeded(i)}

\* The document has a section for phase i.
HasSection(doc, i) == PhaseKey(i) \in DOMAIN doc

\* The document is a whole fallback document.
FallbackShaped(doc) == FallbackKeys \subseteq DOMAIN doc

\* The namespace of phase i is there, as a section of its own or as part
\* of a whole fallback document.
NamespaceFilled(doc, i) == HasSection(doc, i) \/ FallbackShaped(doc)

\* The document carries provenance.origin = o.
HasOrigin(doc, o) ==
    /\ "provenance" \in DOMAIN doc
    /\ doc.provenance.origin = o

\* The segment ticket value of a fallback document.
SegmentTicket(doc) ==
    doc.metricas_performance_detalhadas.benchmarks_segmento.ticket_medio_segmento

-----------------------------------------------------------------------------
(* C1: every returned document contains the namespace of every one of the 9
   phases, whatever subset of the phases succeeded: it is never partially
   shaped. *)
C1_EveryNamespacePresent ==
    Returned => \A i \in Phases : NamespaceFilled(ret, i)

(* C2: no exception reaches the caller of generate_analysis, in any
   configuration state of the client and for any backend, search or parse
   outcome: the call returns a document. *)
C2_NoExceptionReachesCaller ==
    ~Raised

(* C3: with the backend unconfigured at startup, generate_analysis issues no
   generation call for any phase and returns the complete fallback document,
   not an error record. *)
C3_UnconfiguredGoesToFallbackOnly ==
    (Unconfigured /\ pc # "idle") =>
        /\ Returned
        /\ \A i \in Phases : calls[i] = 0
        /\ "error" \notin DOMAIN ret
        /\ FallbackShaped(ret)
        /\ ret = _create_fallback_analysis(request)

(* C4: Scenario A: for the request with segment "weight-loss coaching" and
   price 497 and the backend unconfigured, the returned document has
   provenance.origin = "fallback" and its segment ticket value is 497; in
   general the segment ticket of a returned fallback document is the price
   of the request. *)
C4_ScenarioA ==
    /\ (/\ Unconfigured
        /\ pc # "idle"
        /\ Get(request, "segmento", "") = "weight-loss coaching"
        /\ Get(request, "preco_float", NoneVal) = Num(497)) =>
            /\ Returned
            /\ HasOrigin(ret, "fallback")
            /\ FallbackShaped(ret)
            /\ SegmentTicket(ret) = "R$ 497"
    /\ (/\ Returned
        /\ FallbackShaped(ret)
        /\ Get(request, "preco_float", NoneVal).t = "num") =>
            SegmentTicket(ret) = FormatReais(request.preco_float.v)

(* C5: if phase i < 9 fails because its text cannot be parsed, phase i+1 is
   still executed, phase i is not called again and again, the run is not
   aborted, and the namespace of phase i in the final document is filled by
   the fallback. *)
C5_ParseFailureIsSkippedAndFilled ==
    \A i \in 1..(NumPhases - 1) :
        phase_status[i] = "FAILED_PARSE" =>
            /\ calls[i] \in {1, 2}
            /\ pc \in {"compose", "calling", "assemble", "returned", "raised"}
            /\ (pc # "compose" \/ phase_num > i + 1) => Attempted(i + 1)
            /\ Returned => NamespaceFilled(ret, i)

(* C6: if the generation call of phase i raises or times out, only phase i
   is failed: when the run ends with a returned document the phases i+1..9
   have all been attempted. *)
C6_GenerationErrorFailsOnlyThatPhase ==
    \A i \in Phases :
        (phase_status[i] = "FAILED_ERROR" /\ Returned) =>
            \A j \in (i + 1)..NumPhases : Attempted(j)

(* C7: once phase j has succeeded, its payload is in the document that is
   finally returned, whatever happens in the later phases. *)
C7_PartialResultsPreserved ==
    Returned =>
        \A j \in SucceededPhases :
            /\ HasSection(ret, j)
            /\ ret[PhaseKey(j)] = full_analysis_results[PhaseKey(j)]

(* C8: the returned document holds, for each phase, the payload of the phase
   if it succeeded and the fallback's value otherwise (stated here for the
   runs in which every generation call returned a text and no parsing
   raised); when only phase 3
   got malformed text (Scenario B) the phases other than 3 carry their
   payloads, phase 3 carries fallback content and provenance.origin is
   "partially-generated". *)
C8_MergePerNamespace ==
    /\ (Returned /\ \A i \in Phases :
            phase_status[i] \notin {"FAILED_ERROR", "FAILED_RAISED"}) =>
        \A i \in Phases :
            IF Succeeded(i)
            THEN HasSection(ret, i)
                 /\ ret[PhaseKey(i)] = full_analysis_results[PhaseKey(i)]
            ELSE NamespaceFilled(ret, i)
    /\ (/\ Finished
        /\ phase_status[3] = "FAILED_PARSE"
        /\ SucceededPhases = Phases \ {3}) =>
            /\ Returned
            /\ NamespaceFilled(ret, 3)
            /\ HasOrigin(ret, "partially-generated")

(* C9: provenance.origin of the returned document is "generated" exactly when
   all 9 phases succeeded, "partially-generated" exactly when some but not
   all succeeded, and "fallback" exactly when none succeeded. *)
C9_OriginMatchesSuccesses ==
    Returned =>
        HasOrigin(ret,
            IF SucceededPhases = Phases THEN "generated"
            ELSE IF SucceededPhases = {} THEN "fallback"
            ELSE "partially-generated")

(* C10: every returned document, on every path, contains the research
   section holding the research bundle, and provenance metadata with a
   timestamp and an origin. *)
C10_ResearchAndProvenancePresent ==
    Returned =>
        /\ "research_data" \in DOMAIN ret
        /\ ret.research_data = research_data
        /\ \/ "generated_at" \in DOMAIN ret
           \/ "provenance" \in DOMAIN ret /\ "timestamp" \in DOMAIN ret.provenance
        /\ "provenance" \in DOMAIN ret
        /\ "origin" \in DOMAIN ret.provenance

-----------------------------------------------------------------------------
(* Order and number of the generation calls *)

Running(i) == phase_status[i] = "RUNNING"

\* The outcome of phase i is known: it succeeded or it failed.
OutcomeKnown(i) ==
    phase_status[i] \in {"SUCCEEDED", "FAILED_EMPTY", "FAILED_PARSE",
                         "FAILED_RAISED", "FAILED_ERROR"}

\* C11: the phases run one after the other in the order 1..9: at most one
\* phase is RUNNING, a phase that has been called has all its predecessors
\* called, and the call of phase i+1 is issued only once phase i has
\* succeeded or failed.
C11_PhasesRunSequentially ==
    /\ Cardinality({i \in Phases : Running(i)}) <= 1
    /\ \A i \in 1..(NumPhases - 1) :
        Attempted(i + 1) => Attempted(i) /\ OutcomeKnown(i)

\* Phase 2 is being generated after phase 1 failed to parse.
C11_Witness ==
    /\ Running(2)
    /\ phase_status[1] = "FAILED_PARSE"
    /\ pc = "calling"

\* The generation calls issued for the phases 1..n.
RECURSIVE TotalCalls(_)
TotalCalls(n) == IF n = 0 THEN 0 ELSE calls[n] + TotalCalls(n - 1)

\* C13: a phase gets one generation call and no retry, so a run issues at
\* most NumPhases generation calls.
C13_CallsPerPhaseBounded ==
    /\ \A i \in Phases : calls[i] <= 1
    /\ TotalCalls(NumPhases) <= NumPhases
    /\ \A i \in Phases : calls[i] = 0 <=> phase_status[i] = "PENDING"

\* A run that returned after failures, every phase called exactly once.
C13_Witness ==
    /\ Returned
    /\ \A i \in Phases : calls[i] = 1
    /\ \E i \in Phases : phase_status[i] = "FAILED_PARSE"
    /\ \E i \in Phases : phase_status[i] = "FAILED_EMPTY"

\* C12: a run on a configured backend ends in DONE after the last phase,
\* whichever phases failed: when the run is over it has returned, and every
\* phase up to the last has been run to an outcome.
C12_DoneAfterLastPhase ==
    (Finished /\ ~Unconfigured) =>
        /\ Returned
        /\ \A i \in Phases : OutcomeKnown(i)

-----------------------------------------------------------------------------
(* The parsing of the backend text *)

ParserDone == parser_pc = "done"

\* The text is one well-formed JSON document.
ValidText(t) == Len(t) = 1 /\ (t[1] > 0 \/ t[1] = DEEP)

\* The text is the JSON document v inside a fenced block, with or without
\* prose around the block.
FencedText(t, v) ==
    \/ t = <<FENCE_OPEN, v, FENCE_CLOSE>>
    \/ t = <<JUNK, FENCE_OPEN, v, FENCE_CLOSE>>
    \/ t = <<FENCE_OPEN, v, FENCE_CLOSE, JUNK>>

\* The text holds no JSON document at all.
Garbage(t) == t # << >> /\ \A k \in 1..Len(t) : t[k] \notin Payloads \cup {DEEP}

\* C14: a well-formed JSON text parses to its payload, the same text inside
\* a fenced block parses to the same payload, and a text without any JSON
\* ends in a ParseError.
C14_FencedEqualsPlain ==
    ParserDone =>
        /\ ValidText(response_text) =>
            parse_out = [kind |-> "payload", value |-> response_text[1]]
        /\ \A v \in Payloads \cup {DEEP} :
            FencedText(response_text, v) =>
                parse_out = [kind |-> "payload", value |-> v]
        /\ Garbage(response_text) => parse_out.kind = "ParseError"

\* C15: for every text the parsing ends with a payload or a ParseError and
\* never with an exception; it tries the direct parse first, scans for a
\* fenced block only after the direct parse failed, parses the interior only
\* of a block it found, and reports a ParseError only after these failed.
C15_ParserNeverRaises ==
    /\ ParserDone /\ response_text # << >> =>
        parse_out.kind \in {"payload", "ParseError"}
    /\ attempts \in { << >>, <<"direct">>, <<"direct", "scan">>,
                      <<"direct", "scan", "interior">> }
    /\ parse_out.kind = "ParseError" => Len(attempts) >= 2

-----------------------------------------------------------------------------
(* The research call *)

ResearchReturned == pool_pc = "returned"

\* C16: whichever queries fail and in whatever order the workers complete,
\* the dict returned has exactly the planned queries as keys, a failed query
\* maps to the empty list and every other query to its results; with three
\* queries timing out, three entries are empty and the others are not.
C16_BundleHasEveryQuery ==
    ResearchReturned =>
        /\ DOMAIN pool_research_data = {QueryOf(q) : q \in Queries}
        /\ \A q \in Queries :
            pool_research_data[QueryOf(q)] =
                IF q \in timeouts THEN << >> ELSE SearchResults
        /\ pool_research_data =
            research_segment_comprehensive(PoolSegmento, timeouts)
        /\ Cardinality({q \in Queries : pool_research_data[QueryOf(q)] = << >>})
            = Cardinality(timeouts)

\* Three queries timed out and the call returned.
C16_Witness ==
    /\ ResearchReturned
    /\ timeouts = {2, 5, 9}
    /\ pool_research_data[QueryOf(5)] = << >>
    /\ pool_research_data[QueryOf(6)] = SearchResults

\* C17: every key of the result dict is assigned once, by the main thread,
\* under every interleaving; the dict holds the keys of the collected
\* futures and nothing else, so no worker writes to it.
C17_WriteOncePerKey ==
    /\ \A q \in Queries : Len(writes[q]) <= 1
    /\ \A q \in Queries :
        writes[q] = IF future_to_query[q] = "collected"
                    THEN <<"main">> ELSE << >>
    /\ DOMAIN pool_research_data = {QueryOf(q) : q \in WithState("collected")}
    /\ ResearchReturned => \A q \in Queries : writes[q] = <<"main">>

\* Query 7 was collected before query 1 had completed.
C17_Witness ==
    /\ writes[7] = <<"main">>
    /\ future_to_query[1] = "running"
    /\ QueryOf(7) \in DOMAIN pool_research_data

\* C18: at every moment at most MaxWorkers searches are in flight.
C18_AtMostKInFlight ==
    Cardinality(WithState("running")) <= MaxWorkers

\* The pool is saturated while queries are still waiting.
C18_Witness ==
    /\ Cardinality(WithState("running")) = MaxWorkers
    /\ WithState("queued") # {}

-----------------------------------------------------------------------------
(* Two requests compared *)

BothPlanned == pair_pc \in {"planned_b", "fell_a", "done"}
BothFellBack == pair_pc = "done"

\* The segment a request names, under either key.
SegmentNamed(d) ==
    IF "segmento" \in DOMAIN d THEN d.segmento
    ELSE IF "nicho" \in DOMAIN d THEN d.nicho ELSE ""

\* C19: the planned queries depend on the segment alone: two requests that
\* name the same segment get the same NumQueries queries in the same order,
\* whatever their other fields and whichever was planned first, and requests
\* that name different segments get different queries.
C19_PlanDependsOnSegmentOnly ==
    BothPlanned =>
        /\ Len(plan_a) = NumQueries
        /\ Len(plan_b) = NumQueries
        /\ SegmentNamed(req_a) = SegmentNamed(req_b) => plan_a = plan_b
        /\ SegmentNamed(req_a) # SegmentNamed(req_b) =>
            \A i \in 1..NumQueries : plan_a[i] # plan_b[i]

\* The same segment under different keys, with different product and price.
C19_Witness ==
    /\ BothPlanned
    /\ req_a = [segmento |-> "yoga", produto |-> "curso",
                preco_float |-> Num(497)]
    /\ req_b = [nicho |-> "yoga", produto |-> "mentoria",
                preco_float |-> BadStr]
    /\ plan_a = plan_b
    /\ plan_a[1] = "yoga mercado brasileiro 2023 2025"

\* The fields of a fallback document that carry amounts of money.
MoneyFields(doc) ==
    << doc.avatar_ultra_detalhado.ticket_medio,
       doc.analise_concorrencia_detalhada.preco_range,
       doc.metricas_performance_detalhadas.benchmarks_segmento,
       doc.projecoes_cenarios >>

\* The price entry of a request, NoneVal when it has none.
PriceEntry(d) == IF "preco_float" \in DOMAIN d THEN d.preco_float ELSE NoneVal

\* C20: the fallback is a function of the request, and the amounts in it
\* come from the price of the request and from nothing else: equal requests
\* give equal outcomes, and two requests with the same price entry give the
\* same amounts whatever their segment and product.
C20_FallbackAmountsFromPrice ==
    BothFellBack =>
        /\ req_a = req_b => doc_a = doc_b
        /\ PriceEntry(req_a) = PriceEntry(req_b) =>
            IF PriceEntry(req_a) = InfVal
            THEN doc_a = doc_b
            ELSE MoneyFields(doc_a) = MoneyFields(doc_b)
        /\ PriceEntry(req_a) \in {NoneVal, BadStr} /\ req_a = req_b =>
            doc_a.avatar_ultra_detalhado.ticket_medio = "R$ 797"

\* Two requests with the same price and different segment and product.
C20_Witness ==
    /\ BothFellBack
    /\ req_a = [segmento |-> "yoga", produto |-> "curso",
                preco_float |-> Num(1234567)]
    /\ req_b = [segmento |-> "pilates", preco_float |-> Num(1234567)]
    /\ doc_a # doc_b
    /\ MoneyFields(doc_a) = MoneyFields(doc_b)
    /\ doc_a.avatar_ultra_detalhado.ticket_medio = "R$ 987.653"

-----------------------------------------------------------------------------
(* The amounts and the price of the fallback *)

\* The number a price entry denotes for the fallback: the number itself, or
\* the default when the entry is absent, None or no number.
PriceNumber(d) ==
    IF PriceEntry(d).t \in {"num", "numstr"} THEN PriceEntry(d).v
    ELSE DefaultPreco

FinitePrice(d) == PriceEntry(d) # InfVal

AmountFields ==
    {"purchase_ticket", "segment_ticket", "range_low", "range_high",
     "revenue_conservative", "revenue_realistic", "optimistic_ticket",
     "revenue_optimistic"}

\* The amounts written in a fallback document are those of the price n.
CarriesAmounts(doc, n) ==
    LET a == fallback_amounts(n) IN
    /\ doc.avatar_ultra_detalhado.ticket_medio = FormatReais(a.purchase_ticket)
    /\ doc.metricas_performance_detalhadas.benchmarks_segmento
          .ticket_medio_segmento = FormatReais(a.segment_ticket)
    /\ doc.analise_concorrencia_detalhada.preco_range =
          FormatReais(a.range_low) \o " - " \o FormatReais(a.range_high)
    /\ doc.projecoes_cenarios.cenario_conservador.faturamento_mensal =
          FormatReais(a.revenue_conservative)
    /\ doc.projecoes_cenarios.cenario_realista.faturamento_mensal =
          FormatReais(a.revenue_realistic)
    /\ doc.projecoes_cenarios.cenario_otimista.faturamento_mensal =
          FormatReais(a.revenue_optimistic)
    /\ doc.projecoes_cenarios.cenario_otimista.ticket_medio =
          FormatReais(a.optimistic_ticket)

\* C21: the amounts of the fallback grow with the price: of two fallback
\* documents, the one made for the smaller price carries, field by field,
\* an amount that is not greater; the range of the competitor is a range.
C21_AmountsMonotone ==
    (BothFellBack /\ FinitePrice(req_a) /\ FinitePrice(req_b)) =>
        LET p == PriceNumber(req_a)
            q == PriceNumber(req_b)
        IN /\ CarriesAmounts(doc_a, p)
           /\ CarriesAmounts(doc_b, q)
           /\ p <= q =>
                \A f \in AmountFields :
                    fallback_amounts(p)[f] <= fallback_amounts(q)[f]
           /\ p >= 0 => fallback_amounts(p).range_low
                            <= fallback_amounts(p).range_high

\* The prices 1 and 2: the tickets differ although the 0.8 ticket of 1 is 0.
C21_Witness ==
    /\ BothFellBack
    /\ PriceEntry(req_a) = Num(1)
    /\ PriceEntry(req_b) = Num(2)
    /\ doc_a.avatar_ultra_detalhado.ticket_medio = "R$ 0"
    /\ doc_b.avatar_ultra_detalhado.ticket_medio = "R$ 1"
    /\ doc_b.projecoes_cenarios.cenario_otimista.faturamento_mensal = "R$ 300"

\* The price entry is one whose conversion to a number fails.
CoercionFails(d) == PriceEntry(d) \in {BadStr, OtherVal}

\* C22: the fallback never fails: whatever the price entry of the request,
\* _create_fallback_analysis returns a document, and when the entry cannot
\* be converted to a number the document is the one of the price 997.
C22_FallbackNeverFails ==
    BothFellBack =>
        /\ FallbackShaped(doc_a)
        /\ FallbackShaped(doc_b)
        /\ CoercionFails(req_a) => CarriesAmounts(doc_a, DefaultPreco)

-----------------------------------------------------------------------------
(* The request and the context of the prompts *)

\* C23: the request is read-only: when generate_analysis is over, on every
\* path, the dict the caller handed in has the keys and values it had before
\* the call.
C23_RequestUnchanged ==
    Returned => data = request

\* The phases before i that succeeded, in increasing order.
SucceededBefore(i) ==
    LET earlier == [j \in 1..(i - 1) |-> j]
        ok(j) == Succeeded(j)
    IN SelectSeq(earlier, ok)

\* C28: the prompt sent for phase i carries the payloads of exactly the
\* phases before i that succeeded, in increasing order, each the payload the
\* phase produced, and nothing of a phase that failed.
C28_ContextIsSucceededPhases ==
    pc = "calling" =>
        LET s == SucceededBefore(phase_num) IN
        /\ phase_prompt.phase = phase_num
        /\ Len(phase_prompt.context) = Len(s)
        /\ \A k \in 1..Len(s) :
            /\ phase_prompt.context[k].phase = s[k]
            /\ phase_prompt.context[k].payload =
                    full_analysis_results[PhaseKey(s[k])]

-----------------------------------------------------------------------------
(* Calls that follow one another, and the time allowed to a call *)

\* C29: what a call feeds to phase i as context comes from the phases that
\* succeeded in that same call and from no earlier call, also when the
\* caller hands the same dict to every call.
C29_ContextFromThisRunOnly ==
    pc = "calling" =>
        \A k \in 1..Len(phase_prompt.context) :
            /\ Succeeded(phase_prompt.context[k].phase)
            /\ phase_prompt.context[k].payload =
                Get(full_analysis_results,
                    PhaseKey(phase_prompt.context[k].phase), JUNK)

\* C26: the call has one overall deadline: once it is over no further phase
\* is issued, and the document returned has every namespace whose phase was
\* not executed filled by the fallback.
C26_DeadlineStopsPhases ==
    deadline.expired =>
        /\ \A i \in Phases : calls[i] = deadline.calls[i]
        /\ Returned => \A i \in Phases : ~Attempted(i) => NamespaceFilled(ret, i)

-----------------------------------------------------------------------------
(* The length of the prompt *)

\* C25: the prompt composed for a phase is never longer than the longest
\* prompt allowed, however long the payloads of the earlier phases are: the
\* context it carries is shorter than that length.
C25_PromptLengthBounded ==
    pc = "calling" => context_len(phase_prompt.context) < 1

-----------------------------------------------------------------------------
(* No retry of a search *)

\* How far the future of a query has come.
FutureRank(st) ==
    CASE st = "unsubmitted" -> 0
      [] st = "queued"      -> 1
      [] st = "running"     -> 2
      [] st = "done"        -> 3
      [] st = "collected"   -> 4

\* C30: in one call of the research each planned query is submitted once and
\* its search request is sent once, whether it succeeds or fails: the future
\* of a query only moves forward, one stage at a time, a failed one as well,
\* and at the return every query has been through all the stages.
C30_NoRetry ==
    [][/\ \A q \in Queries :
            \/ future_to_query'[q] = future_to_query[q]
            \/ FutureRank(future_to_query'[q]) =
                    FutureRank(future_to_query[q]) + 1
       /\ pool_pc' = "returned" => WithState("collected") = Queries]_vars

C30_Witness ==
    /\ pool_pc = "returned"
    /\ timeouts = {2, 5, 9}
    /\ \A q \in Queries : writes[q] = <<"main">>
    /\ pool_research_data[QueryOf(5)] = << >>
    /\ pool_research_data[QueryOf(1)] = SearchResults

-----------------------------------------------------------------------------
(* The time of the research *)

\* The rounds a pool of MaxWorkers workers needs for the planned queries.
PoolRounds == (NumQueries + MaxWorkers - 1) \div MaxWorkers

\* C27 as stated: a call of the research is over within as many search
\* timeouts as the pool needs rounds.
C27_WithinRoundsOfSearchTimeout ==
    pool_pc = "returned" => now <= PoolRounds * SearchTimeout

\* C27: a call of the research is over within as many times the longest a
\* query may take, its search request and the snippet requests of its
\* results, as the pool needs rounds, not as many as there are queries; at
\* any moment of the call no more time than that has passed.
C27_WithinRoundsOfQueryTime ==
    /\ now <= PoolRounds * (SearchTimeout + NumResults * SnippetTimeout)
    /\ timeouts = Queries => now <= PoolRounds * SearchTimeout

C27_Witness ==
    /\ pool_pc = "returned"
    /\ timeouts = {}
    /\ Len(SearchResults) <= NumResults
    /\ now = PoolRounds * (SearchTimeout + Len(SearchResults) * SnippetTimeout)
    /\ now > PoolRounds * SearchTimeout
    /\ now < NumQueries * SearchTimeout

-----------------------------------------------------------------------------
(* The document and the database *)

\* C24: when the add or the commit of the row fails after the document has
\* been decoded, the response of the route still carries the document.
C24_DocumentSurvivesPersistenceFailure ==
    (/\ route_pc = "responded"
     /\ analysis_data.kind = "dict"
     /\ db_fault \in {"add", "commit"})
        => /\ http_response.status = 200
           /\ http_response.analysis_data = analysis_data.value

-----------------------------------------------------------------------------
(* What is kept of a phase that failed *)

\* C31: a phase that failed because its text cannot be parsed has a result
\* of its own, the one that carries the raw text: the returned document has
\* an entry for that phase.
C31_RawTextRetained ==
    \A i \in Phases :
        (Returned /\ phase_status[i] = "FAILED_PARSE") => HasSection(ret, i)

-----------------------------------------------------------------------------
(* The research digest *)

\* C33: the digest in the prompt of every phase has, for each query, at most
\* the first 3 results of the query, each snippet cut to at most 200
\* characters, and no entry for a query whose result list is empty.
C33_DigestBounded ==
    pc = "calling" =>
        /\ phase_prompt.research_summary = research_summary
        /\ \A e \in 1..Len(research_summary) :
            LET entry == research_summary[e]
                results == research_data[entry.query]
            IN /\ results # << >>
               /\ Len(entry.items) >= 1
               /\ Len(entry.items) <= 3
               /\ \A k \in 1..Len(entry.items) :
                    /\ entry.items[k].title = results[k].title
                    /\ entry.items[k].snippet <= 200
                    /\ entry.items[k].snippet <= results[k].snippet

C33_Witness ==
    /\ pc = "calling"
    /\ phase_num = NumPhases
    /\ Len(phase_prompt.research_summary) = 7
    /\ \E q \in DOMAIN research_data : research_data[q] = << >>
    /\ \E e \in 1..Len(research_summary) :
        /\ Len(research_data[research_summary[e].query]) = 4
        /\ Len(research_summary[e].items) = 3
        /\ research_data[research_summary[e].query][1].snippet = 503
        /\ research_summary[e].items[1].snippet = 200

-----------------------------------------------------------------------------
(* A phase answered with an empty text *)

\* C35: a phase whose response has an empty text fails at line 2456, before
\* the parsing: the step that fails it records no result, adds nothing to the
\* dict the prompts take their context from, raises nothing and goes on to
\* the next phase, or to the assembly after the last one; the phase has no
\* result afterwards.
C35_EmptyTextSkipsPhase ==
    [][\A i \in Phases :
        /\ (phase_status[i] # "FAILED_EMPTY"
                /\ phase_status'[i] = "FAILED_EMPTY") =>
            /\ pc = "calling"
            /\ phase_num = i
            /\ full_analysis_results' = full_analysis_results
            /\ data' = data
            /\ exc' = exc
            /\ calls' = calls
            /\ IF i < 9
               THEN pc' = "compose" /\ phase_num' = i + 1
               ELSE pc' = "assemble"
        /\ phase_status'[i] = "FAILED_EMPTY" =>
            ~HasSection(full_analysis_results', i)]_vars

C35_Witness ==
    /\ Returned
    /\ Succeeded(1)
    /\ phase_status[2] = "FAILED_EMPTY"
    /\ Succeeded(3)
    /\ calls[2] = 1
    /\ calls[3] = 1
    /\ ~HasSection(ret, 2)
    /\ HasSection(ret, 3)
    /\ PhaseKey(2) \notin DOMAIN data

-----------------------------------------------------------------------------
(* Results and context *)

\* C34: at every point of a run the phases with a payload in the results are
\* the phases with a payload in the dict that the prompts take their context
\* from.
C34_ResultsMatchContext ==
    pc \in {"research", "compose", "calling", "assemble"} =>
        \A i \in Phases :
            HasSection(full_analysis_results, i) <=> PhaseKey(i) \in DOMAIN data

-----------------------------------------------------------------------------
(* The result list of a query *)

\* The links among the first 5 of the page that have a title and a url.
ListedRanks ==
    {k \in 1..Len(search.anchors) :
        k <= 5 /\ search.anchors[k].title # "" /\ search.anchors[k].url # ""}

\* C32: the result list of a query has at most 5 entries, the links of the
\* first 5 of the page that have a title and a url, in the order of the
\* page; a link whose snippet fetch failed is listed with its title and url
\* and an empty snippet, and the others keep their snippets.
C32_ResultsRankedAndBounded ==
    search.pc = "returned" =>
        /\ Len(search.results) <= 5
        /\ Len(search.results) = Cardinality(ListedRanks)
        /\ \A k \in ListedRanks :
            LET j == Cardinality({m \in ListedRanks : m <= k})
                a == search.anchors[k]
            IN /\ search.results[j].title = a.title
               /\ search.results[j].url = a.url
               /\ a.text < 0 => search.results[j].snippet = 0
               /\ a.text >= 0 =>
                    /\ search.results[j].snippet >= Min(a.text, 500)
                    /\ search.results[j].snippet <= 503

C32_Witness ==
    /\ search.pc = "returned"
    /\ Len(search.anchors) = 6
    /\ ListedRanks = 1..5
    /\ search.anchors[2].text < 0
    /\ search.anchors[3].text = 600
    /\ Len(search.results) = 5
    /\ search.results[2] = [title |-> "t2", url |-> "u2", snippet |-> 0]
    /\ search.results[3] = [title |-> "t3", url |-> "u3", snippet |-> 503]

-----------------------------------------------------------------------------
(* The connection test at startup *)

\* The attempts before the first one that goes through, all 3 when none does.
FailuresFirst ==
    Cardinality({k \in 1..3 : \A m \in 1..k : ~boot.up[m]})

\* C37: the connection test makes at most 3 attempts and stops at the first
\* one that goes through; it has waited once for every failed attempt that
\* was followed by another one, and not after the last; whatever the
\* attempts give, the startup goes on until the application has started.
C37_AtMostThreeAttempts ==
    /\ boot.tries <= 3
    /\ boot.sleeps <= 2
    /\ boot.pc = "attempt" => boot.sleeps = boot.tries
    /\ boot.pc = "failed" => boot.sleeps = boot.tries - 1
    /\ boot.pc # "started" => ENABLED BootNext
    /\ (boot.pc = "started" /\ boot.tries > 0) =>
        /\ boot.tries = IF FailuresFirst = 3 THEN 3 ELSE FailuresFirst + 1
        /\ boot.sleeps = boot.tries - 1
        /\ boot.connected <=> FailuresFirst < 3

C37_Witness ==
    /\ boot.pc = "started"
    /\ boot.up = [k \in 1..3 |-> FALSE]
    /\ boot.tries = 3
    /\ boot.sleeps = 2
    /\ ~boot.connected

-----------------------------------------------------------------------------
(* C38.  Signup keeps emails unique: whatever the interleaving of the signup *)
(* requests, the users table holds at most one user per email and at most    *)
(* one user per request; a signup answered 201 created its user; a signup    *)
(* whose query found the email registered created no user and is answered   *)
(* 400, or 500 when closing its session raised.                              *)

UsersBy(r) == {k \in 1..Len(site.users) : site.users[k].by = r}

SignupDone(r) ==
    /\ site.reqs[r].body.kind = "signup"
    /\ site.reqs[r].pc = "done"

-----------------------------------------------------------------------------
(* C39.  Every database session a handler opened has had db.close() called  *)
(* on it when the handler has ended, whichever operation raised on the way: *)
(* at the end of analyze, signup and login the session is closed, or the    *)
(* call of db.close() is itself the operation that raised.                  *)

C39_SessionsClosed ==
    /\ route_pc = "responded" /\ db # "none" =>
            db = "closed" \/ db_fault = "close"
    /\ site.pc = "serving" =>
            \A r \in SiteRequests :
                LET req == site.reqs[r]
                IN req.pc = "done" /\ req.session # "none" =>
                        req.session = "closed" \/ req.body.fault = "close"

\* A signup whose commit raised and a login whose query raised have both
\* ended with their sessions closed.
C39_Witness ==
    /\ site.pc = "serving"
    /\ site.reqs["first"].body.kind = "signup"
    /\ site.reqs["first"].body.fault = "commit"
    /\ site.reqs["second"].body.kind = "login"
    /\ site.reqs["second"].body.fault = "query"
    /\ \A r \in SiteRequests :
            /\ site.reqs[r].pc = "done"
            /\ site.reqs[r].status = 500
            /\ site.reqs[r].session = "closed"

-----------------------------------------------------------------------------
(* The steps of the archeology analysis *)

\* The calls of the cached wrapper the request being served has made.
CallsOfRequest == SubSeq(arch.calls, arch.before + 1, Len(arch.calls))

\* The rows the request being served has persisted.
RowsOfRequest ==
    {k \in 1..Len(arch.rows) : arch.rows[k].request = arch.served}

\* The calls among them that produced a text, from the backend or from the
\* cache.
Generated(log) == {i \in 1..Len(log) : ~log[i].raised}

-----------------------------------------------------------------------------
(* The cache of the generation wrapper *)

=============================================================================
